---- MODULE Spec2Model ----
(***************************************************************************)
(* Dispatcharr front-end: the server-synchronised streams table            *)
(* (frontend/src/components/tables/StreamsTable.jsx).                      *)
(*                                                                         *)
(* The component is a React function component.  Its state is the set of   *)
(* useState cells; an event handler runs to completion, React re-renders,  *)
(* and the effect on [fetchData] runs whenever one of fetchData's          *)
(* dependencies got a new identity.  An action below is one handler (or    *)
(* one continuation of an async function after an await) together with     *)
(* the re-render and the effect run it causes.                             *)
(***************************************************************************)
EXTENDS Integers, Sequences, FiniteSets, Bags, TLC

(***************************************************************************)
(* Bounds of the model.                                                    *)
(***************************************************************************)
\* fetches in flight beyond which the user (or the store) waits before the
\* next event that starts one
MaxInFlight == 1
\* bulk operations (create channels / delete streams) in flight at once
MaxBulk == 1
\* largest argument handed to onPageIndexChange
MaxPageArg == 3

(***************************************************************************)
(* Program constants.                                                      *)
(***************************************************************************)
\* useState(null) of initialDataCount
Null == -1
\* useState({ pageIndex: 0, pageSize: 50 })
InitialPageSize == 50

\* NativeSelect data={['25', '50', '100', '250']}: the options exercised
PageSizeOptions == {25, 50}
\* arguments of onPageIndexChange: 0, a negative value, in and out of range
PageArgs == -1 .. MaxPageArg
\* column ids onSortingChange is called with (the name header wires 'name';
\* the handler itself takes any column id)
SortColumns == {"name", "group"}

(***************************************************************************)
(* JavaScript values of the filter inputs.  A value is a string (the text  *)
(* input, the Select) or an array (the MultiSelect); text is what          *)
(* String(value) gives, which is what URLSearchParams.append stores.       *)
(***************************************************************************)
Str(s) == [kind |-> "string", text |-> s]
Arr(s) == [kind |-> "array", text |-> s]
\* JavaScript truthiness: every array is truthy, a string unless it is ''
Truthy(v) == v.kind = "array" \/ v.text # ""

\* e.target.value of the name input
NameInputs == {"", "fo", "fox"}
\* value of the group MultiSelect: [] when cleared, else the chosen groups
GroupInputs == {Arr(""), Arr("News")}
\* value of the M3U Select: null when cleared, else the playlist id
M3UInputs == {"", "1"}

FilterKeys == <<"name", "channel_group", "m3u_account">>

(***************************************************************************)
(* What the Gateway (API.queryStreams, API.getAllStreamIds,                *)
(* API.getStreamGroups) may answer.  The Gateway is external: every field  *)
(* of an answer is drawn independently.                                    *)
(***************************************************************************)
Counts == {0, 60}
RowPages == {<<>>, <<1>>}
IdLists == {<<>>, <<1, 2>>}
GroupLists == {<<"News">>}
Responses == [count : Counts, results : RowPages, ids : IdLists, groups : GroupLists]
\* how Promise.all settles: "ok", or the call that rejects
Outcomes == {"ok", "queryStreams", "getAllStreamIds", "getStreamGroups"}

VARIABLES
    filters,            \* useState: the staged filter map
    debouncedFilters,   \* useDebounce(filters, 500, cb): the committed map
    debounceTimer,      \* the pending setTimeout of useDebounce: <<>> or <<value>>
    pagination,         \* useState: [pageIndex, pageSize]
    sorting,            \* useState: array of {id, desc}
    isLoading,          \* useState
    data,               \* useState: the rows shown
    allRowIds,          \* useState: the full id list
    pageCount,          \* useState
    paginationString,   \* useState
    groupOptions,       \* useState
    initialDataCount,   \* useState: Null until the first successful fetch
    groupsLoaded,       \* useState
    channelGroups,      \* store: "empty" when Object.keys(channelGroups).length === 0
    fetchDataInitial,   \* initialDataCount as captured by the memoised fetchData
    fetches,            \* bag of fetchData calls suspended at an await
    selectedStreamIds,  \* useState
    modalOpen,          \* useState
    bulk,               \* bag of bulk operations suspended at an await
    requests,           \* the list / id-enumeration calls made by the last step
    lastEvent,          \* the last step: [op, n, col] (see Event)
    authUser,           \* store (auth): user_level of the signed-in user
    channelStreams,     \* store (channelsTable): the streams of the channel, in order
    channelData,        \* ChannelStreams useState data: the local order
    dragging,           \* DndContext: the id of the row being dragged, or NoRow
    updates,            \* bag of API.updateChannel calls not yet settled
    requeries,          \* API.requeryChannels calls of drops not yet settled
    lastDrag,           \* the last step of ChannelStreams: [op, active, over]
    websocketReady,     \* useWebSocket(): the socket is open
    streamUrlFetch,     \* fetchStreamUrl is suspended at await API.queryStreams
    streamUrl,          \* RegexFormAndView useState
    searchPattern,      \* useState
    replacePattern,     \* useState
    debouncedPatterns,  \* useState: {} or {search, replace}
    patternTimer,       \* the pending setTimeout of the debounce effect: <<>> or <<value>>
    sampleInput,        \* useState
    previews,           \* the messages sendMessage got in the last step
    lastPreview,        \* the last step of RegexFormAndView: [op, n, col]
    open,               \* App useState: the drawer
    checkSuperuser,     \* where checkSuperuser stands: "fetchSuperUser" or "done"
    superuserExists,    \* store (auth): cleared by setSuperuserExists(false)
    token,              \* localStorage holds token and refreshToken
    href,               \* window.location.href: "app", or "/login" once assigned
    unloaded,           \* the navigation to /login has unloaded the page
    checkAuth,          \* where checkAuth stands (see CheckAuthAt)
    loggedIn,           \* how initializeAuth settled: "pending", "true", "false", "throws"
    initDataCalls,      \* calls of initData so far
    logoutCalls,        \* calls of logout so far
    dataInitialised,    \* initData has resolved
    lastStart           \* the last step of App: [op, outcome]

queryVars == <<filters, debouncedFilters, debounceTimer, pagination, sorting>>
resultVars == <<data, allRowIds, pageCount, paginationString, groupOptions,
                initialDataCount>>
\* StreamsTable
tableVars == <<filters, debouncedFilters, debounceTimer, pagination, sorting,
               isLoading, data, allRowIds, pageCount, paginationString,
               groupOptions, initialDataCount, groupsLoaded, channelGroups,
               fetchDataInitial, fetches, selectedStreamIds, modalOpen, bulk,
               requests, lastEvent>>
\* ChannelStreams and the stores it reads
csVars == <<authUser, channelStreams, channelData, dragging, updates, requeries,
            lastDrag>>
\* RegexFormAndView
previewVars == <<websocketReady, streamUrlFetch, streamUrl, searchPattern,
                 replacePattern, debouncedPatterns, patternTimer, sampleInput,
                 previews, lastPreview>>
\* App
appVars == <<open, checkSuperuser, superuserExists, token, href, unloaded,
             checkAuth, loggedIn, initDataCalls, logoutCalls, dataInitialised,
             lastStart>>
vars == <<filters, debouncedFilters, debounceTimer, pagination, sorting,
          isLoading, data, allRowIds, pageCount, paginationString,
          groupOptions, initialDataCount, groupsLoaded, channelGroups,
          fetchDataInitial, fetches, selectedStreamIds, modalOpen, bulk,
          requests, lastEvent, authUser, channelStreams, channelData, dragging,
          updates, requeries, lastDrag, websocketReady, streamUrlFetch, streamUrl,
          searchPattern, replacePattern, debouncedPatterns, patternTimer,
          sampleInput, previews, lastPreview, open, checkSuperuser,
          superuserExists, token, href, unloaded, checkAuth, loggedIn,
          initDataCalls, logoutCalls, dataInitialised, lastStart>>

(***************************************************************************)
(* lastEvent records the step just taken, for the properties to name it:   *)
(* op is the handler or continuation; n is the argument of                 *)
(* onPageIndexChange or onPageSizeChange, the page index held before a     *)
(* commit, the number (up to 2) of consecutive filter edits, and 1 for a   *)
(* sort click that leaves a descending field for another one; col is the  *)
(* column of a sort click, the value of a store update, and "burst" for a  *)
(* commit that directly follows two or more consecutive filter edits.      *)
(***************************************************************************)
Event(op, n, col) == [op |-> op, n |-> n, col |-> col]

InFlight == BagCardinality(fetches)
BagOf(x) == SetToBag({x})

(***************************************************************************)
(* fetchData: the parameters.                                              *)
(***************************************************************************)
\* sorting[0].desc is '' initially, then false or true
DescTruthy(desc) == desc = "true"
\* desc == false (loose equality: '' == false holds)
DescLooseEqFalse(desc) == desc \in {"''", "false"}
\* desc === false
DescStrictEqFalse(desc) == desc = "false"

OrderingParam(so) ==
    IF Len(so) > 0
    THEN << <<"ordering",
              (IF DescTruthy(so[1].desc) THEN "-" ELSE "") \o so[1].id>> >>
    ELSE <<>>

RECURSIVE FilterParams(_, _)
FilterParams(df, i) ==
    IF i > Len(FilterKeys) THEN <<>>
    ELSE (IF Truthy(df[FilterKeys[i]])
          THEN << <<FilterKeys[i], df[FilterKeys[i]].text>> >>
          ELSE <<>>) \o FilterParams(df, i + 1)

\* BuildParams sending the zero-based page index
BuildParamsZeroBased(pg, so, df) ==
    << <<"page", ToString(pg.pageIndex)>>,
       <<"page_size", ToString(pg.pageSize)>> >>
    \o OrderingParam(so) \o FilterParams(df, 1)

BuildParams(pg, so, df) ==
    << <<"page", ToString(pg.pageIndex + 1)>>,
       <<"page_size", ToString(pg.pageSize)>> >>
    \o OrderingParam(so) \o FilterParams(df, 1)

(***************************************************************************)
(* A fetchData call suspended at an await.  At await fetchChannelGroups()  *)
(* it still holds everything its closure captured.  Once the parameters    *)
(* are built and the three calls are made (await Promise.all), the code    *)
(* reads only pagination and initialDataCount from the closure, so only    *)
(* these are kept; the calls made are recorded in requests.                *)
(***************************************************************************)
AwaitingGroups(pg, so, df, init) ==
    [pc |-> "fetchChannelGroups", pagination |-> pg, sorting |-> so,
     debouncedFilters |-> df, initialDataCount |-> init]

AwaitingAll(pg, init) ==
    [pc |-> "Promise.all", pagination |-> pg, initialDataCount |-> init]

\* API.queryStreams(params), API.getAllStreamIds(params), API.getStreamGroups()
Calls(pg, so, df) ==
    [queryStreams |-> BuildParams(pg, so, df),
     getAllStreamIds |-> BuildParams(pg, so, df)]

\* if (!groupsLoaded && Object.keys(channelGroups).length === 0)
NeedsGroups(gl, cg) == ~gl /\ cg = "empty"

\* the call of fetchData up to its first await: the suspended call
StartFetch(pg, so, df, gl, cg, init) ==
    IF NeedsGroups(gl, cg)
    THEN AwaitingGroups(pg, so, df, init)
    ELSE AwaitingAll(pg, init)

\* ... and the Gateway calls it made on the way
StartCalls(pg, so, df, gl, cg) ==
    IF NeedsGroups(gl, cg) THEN <<>> ELSE <<Calls(pg, so, df)>>

\* a step of App
StartEvent(op, outcome) == [op |-> op, outcome |-> outcome]

\* useState({}) of debouncedPatterns
EmptyObject == [key \in {} |-> <<>>]
\* { search: searchPattern, replace: replacePattern }
Patterns(search, replace) == [search |-> search, replace |-> replace]

\* no row: event.over is null, no drag session
NoRow == 0
\* the streams of the channel when ChannelStreams is first rendered
InitialStreams == <<1, 2, 3, 4>>
\* lastDrag names the step ChannelStreams just took, with the rows of the
\* drag event
DragEvent(op, active, over) == [op |-> op, active |-> active, over |-> over]

InitialFilters == [name |-> Str(""), channel_group |-> Str(""), m3u_account |-> Str("")]
InitialPagination == [pageIndex |-> 0, pageSize |-> InitialPageSize]
InitialSorting == << [id |-> "name", desc |-> "''"] >>

(***************************************************************************)
(* The state after the first render and its effects: the mount effect has  *)
(* called fetchData and useDebounce has scheduled its first timeout.       *)
(***************************************************************************)
Init ==
    /\ filters = InitialFilters
    /\ debouncedFilters = InitialFilters
    /\ debounceTimer = <<InitialFilters>>
    /\ pagination = InitialPagination
    /\ sorting = InitialSorting
    /\ isLoading = TRUE
    /\ data = <<>>
    /\ allRowIds = <<>>
    /\ pageCount = 0
    /\ paginationString = ""
    /\ groupOptions = <<>>
    /\ initialDataCount = Null
    /\ groupsLoaded = FALSE
    /\ channelGroups \in {"empty", "loaded"}
    /\ fetchDataInitial = Null
    /\ fetches = BagOf(StartFetch(InitialPagination, InitialSorting, InitialFilters,
                                  FALSE, channelGroups, Null))
    /\ selectedStreamIds = {}
    /\ modalOpen = FALSE
    /\ bulk = EmptyBag
    /\ requests = StartCalls(InitialPagination, InitialSorting, InitialFilters,
                             FALSE, channelGroups)
    /\ lastEvent = Event("mount", 0, "")
    /\ authUser = "NONE"
    /\ channelStreams = InitialStreams
    /\ channelData = InitialStreams
    /\ dragging = NoRow
    /\ updates = EmptyBag
    /\ requeries = 0
    /\ lastDrag = DragEvent("mount", NoRow, NoRow)
    /\ websocketReady = FALSE
    /\ streamUrlFetch = TRUE
    /\ streamUrl = <<>>
    /\ searchPattern = <<>>
    /\ replacePattern = <<>>
    /\ debouncedPatterns = EmptyObject
    /\ patternTimer = << Patterns(<<>>, <<>>) >>
    /\ sampleInput = <<>>
    /\ previews = <<>>
    /\ lastPreview = Event("mount", 0, "")
    /\ open = TRUE
    /\ checkSuperuser = "fetchSuperUser"
    /\ superuserExists = TRUE
    /\ token = TRUE
    /\ href = "app"
    /\ unloaded = FALSE
    /\ checkAuth = "initializeAuth"
    /\ loggedIn = "pending"
    /\ initDataCalls = 0
    /\ logoutCalls = 0
    /\ dataInitialised = FALSE
    /\ lastStart = StartEvent("mount", "")

\* an effect with an empty dependency list: it runs on mount only
RunEffectOnMountOnly(pg, so, df, gl, cg) ==
    /\ requests' = <<>>
    /\ UNCHANGED <<fetchDataInitial, fetches, isLoading>>

(***************************************************************************)
(* The re-render after a dependency of fetchData got a new identity:       *)
(* fetchData is created again (capturing the initialDataCount of that      *)
(* render) and the effect on [fetchData] calls it.                         *)
(***************************************************************************)
RunEffect(pg, so, df, gl, cg) ==
    /\ fetchDataInitial' = initialDataCount
    /\ fetches' = fetches (+) BagOf(StartFetch(pg, so, df, gl, cg, initialDataCount))
    /\ requests' = StartCalls(pg, so, df, gl, cg)
    /\ isLoading' = TRUE

(***************************************************************************)
(* Filter inputs.  Each handler replaces the filters object; useDebounce   *)
(* sees the new value, clears its pending timeout and schedules a new one. *)
(* fetchData does not depend on filters, so no fetch starts.               *)
(***************************************************************************)
ScheduleDebounce(value) == <<value>>

\* SetFilters had fetchData depended on filters: every edit starts a fetch
SetFiltersRefetch(next) ==
    /\ filters' = next
    /\ debounceTimer' = ScheduleDebounce(next)
    /\ lastEvent' = Event("filter",
                          IF lastEvent.op = "filter" THEN 2 ELSE 1, "")
    /\ RunEffect(pagination, sorting, next, groupsLoaded, channelGroups)
    /\ UNCHANGED <<debouncedFilters, pagination, sorting, resultVars,
                   groupsLoaded, channelGroups, selectedStreamIds, modalOpen, bulk>>
    /\ UNCHANGED csVars
    /\ UNCHANGED previewVars
    /\ UNCHANGED appVars

SetFilters(next) ==
    /\ filters' = next
    /\ debounceTimer' = ScheduleDebounce(next)
    /\ lastEvent' = Event("filter",
                          IF lastEvent.op = "filter" THEN 2 ELSE 1, "")
    /\ requests' = <<>>
    /\ UNCHANGED <<debouncedFilters, pagination, sorting, isLoading, resultVars,
                   groupsLoaded, channelGroups, fetchDataInitial, fetches,
                   selectedStreamIds, modalOpen, bulk>>
    /\ UNCHANGED csVars
    /\ UNCHANGED previewVars
    /\ UNCHANGED appVars

handleFilterChange(value) ==
    SetFilters([filters EXCEPT !.name = Str(value)])

\* handleGroupChange had the group been kept outside the debounced filters
\* object: the edit is staged but the pending timeout is left as it is
handleGroupChangeOwnWindow(value) ==
    /\ filters' = [filters EXCEPT !.channel_group = IF Truthy(value) THEN value ELSE Str("")]
    /\ lastEvent' = Event("filter",
                          IF lastEvent.op = "filter" THEN 2 ELSE 1, "")
    /\ requests' = <<>>
    /\ UNCHANGED <<debouncedFilters, debounceTimer, pagination, sorting, isLoading,
                   resultVars, groupsLoaded, channelGroups, fetchDataInitial,
                   fetches, selectedStreamIds, modalOpen, bulk>>
    /\ UNCHANGED csVars
    /\ UNCHANGED previewVars
    /\ UNCHANGED appVars

handleGroupChange(value) ==
    SetFilters([filters EXCEPT !.channel_group = IF Truthy(value) THEN value ELSE Str("")])

handleM3UChange(value) ==
    SetFilters([filters EXCEPT !.m3u_account = IF value # "" THEN Str(value) ELSE Str("")])

(***************************************************************************)
(* useDebounce's timeout fires: 500 ms passed with no new filters object.  *)
(* The debounced value becomes the value the timeout was scheduled with    *)
(* and the callback runs; both updates are applied in one render.          *)
(***************************************************************************)
\* a callback that leaves the page index as it is
ResetPageIndexKept(prev) == prev

\* the callback handed to useDebounce
ResetPageIndex(prev) == [prev EXCEPT !.pageIndex = 0]

debounceTimeout ==
    /\ debounceTimer # <<>>
    /\ debouncedFilters' = debounceTimer[1]
    /\ debounceTimer' = <<>>
    /\ pagination' = ResetPageIndex(pagination)
    /\ RunEffect(pagination', sorting, debouncedFilters', groupsLoaded, channelGroups)
    /\ lastEvent' = Event("commit", pagination.pageIndex,
                          IF lastEvent.op = "filter" /\ lastEvent.n = 2
                          THEN "burst" ELSE "")
    /\ UNCHANGED <<filters, sorting, resultVars, groupsLoaded, channelGroups,
                   selectedStreamIds, modalOpen, bulk>>
    /\ UNCHANGED csVars
    /\ UNCHANGED previewVars
    /\ UNCHANGED appVars

(***************************************************************************)
(* Pagination and sorting handlers.                                        *)
(***************************************************************************)
\* onPageSizeChange clearing the selection
onPageSizeChangeDeselects(value) ==
    /\ pagination' = [pagination EXCEPT !.pageSize = value]
    /\ RunEffect(pagination', sorting, debouncedFilters, groupsLoaded, channelGroups)
    /\ lastEvent' = Event("pageSize", value, "")
    /\ selectedStreamIds' = {}
    /\ UNCHANGED <<filters, debouncedFilters, debounceTimer, sorting, resultVars,
                   groupsLoaded, channelGroups, modalOpen, bulk>>
    /\ UNCHANGED csVars
    /\ UNCHANGED previewVars
    /\ UNCHANGED appVars

onPageSizeChange(value) ==
    /\ pagination' = [pagination EXCEPT !.pageSize = value]
    /\ RunEffect(pagination', sorting, debouncedFilters, groupsLoaded, channelGroups)
    /\ lastEvent' = Event("pageSize", value, "")
    /\ UNCHANGED <<filters, debouncedFilters, debounceTimer, sorting, resultVars,
                   groupsLoaded, channelGroups, selectedStreamIds, modalOpen, bulk>>
    /\ UNCHANGED csVars
    /\ UNCHANGED previewVars
    /\ UNCHANGED appVars

\* if (!pageIndex || pageIndex > pageCount) return;
PageIndexRejected(pageIndex, count) == pageIndex = 0 \/ pageIndex > count

onPageIndexChange(pageIndex) ==
    /\ lastEvent' = Event("pageIndex", pageIndex, "")
    /\ IF PageIndexRejected(pageIndex, pageCount)
       THEN /\ requests' = <<>>
            /\ UNCHANGED <<pagination, fetchDataInitial, fetches, isLoading>>
       ELSE /\ pagination' = [pagination EXCEPT !.pageIndex = pageIndex - 1]
            /\ RunEffect(pagination', sorting, debouncedFilters, groupsLoaded,
                         channelGroups)
    /\ UNCHANGED <<filters, debouncedFilters, debounceTimer, sorting, resultVars,
                   groupsLoaded, channelGroups, selectedStreamIds, modalOpen, bulk>>
    /\ UNCHANGED csVars
    /\ UNCHANGED previewVars
    /\ UNCHANGED appVars

\* NextSorting with sortDirection === false
NextSortingStrict(so, column) ==
    IF Len(so) > 0 /\ so[1].id = column
    THEN IF DescStrictEqFalse(so[1].desc)
         THEN << [id |-> column, desc |-> "true"] >>
         ELSE <<>>
    ELSE << [id |-> column, desc |-> "false"] >>

\* NextSorting carrying the direction over to the new field
NextSortingCarry(so, column) ==
    IF Len(so) > 0 /\ so[1].id = column
    THEN IF DescLooseEqFalse(so[1].desc)
         THEN << [id |-> column, desc |-> "true"] >>
         ELSE <<>>
    ELSE << [id |-> column, desc |-> IF Len(so) > 0 THEN so[1].desc ELSE "false"] >>

NextSorting(so, column) ==
    IF Len(so) > 0 /\ so[1].id = column
    THEN IF DescLooseEqFalse(so[1].desc)
         THEN << [id |-> column, desc |-> "true"] >>
         ELSE <<>>
    ELSE << [id |-> column, desc |-> "false"] >>

onSortingChange(column) ==
    /\ sorting' = NextSorting(sorting, column)
    /\ RunEffect(pagination, sorting', debouncedFilters, groupsLoaded, channelGroups)
    /\ lastEvent' = Event("sort",
                          IF /\ Len(sorting) > 0
                             /\ sorting[1].id # column
                             /\ DescTruthy(sorting[1].desc)
                          THEN 1 ELSE 0, column)
    /\ UNCHANGED <<filters, debouncedFilters, debounceTimer, pagination, resultVars,
                   groupsLoaded, channelGroups, selectedStreamIds, modalOpen, bulk>>
    /\ UNCHANGED csVars
    /\ UNCHANGED previewVars
    /\ UNCHANGED appVars


(***************************************************************************)
(* The channel-groups store gets a new channelGroups object (its own       *)
(* fetchChannelGroups, or any other writer of the store).  channelGroups   *)
(* is a dependency of fetchData.                                           *)
(***************************************************************************)
channelGroupsUpdated(value) ==
    /\ channelGroups' = value
    /\ RunEffect(pagination, sorting, debouncedFilters, groupsLoaded, channelGroups')
    /\ lastEvent' = Event("channelGroups", 0, value)
    /\ UNCHANGED <<queryVars, resultVars, groupsLoaded, selectedStreamIds,
                   modalOpen, bulk>>
    /\ UNCHANGED csVars
    /\ UNCHANGED previewVars
    /\ UNCHANGED appVars

(***************************************************************************)
(* fetchData resumes after await fetchChannelGroups().  On success it sets *)
(* groupsLoaded (a dependency of fetchData: the first time, the effect     *)
(* runs again); an error is caught and logged.  Either way it goes on to   *)
(* build the parameters from its closure and awaits Promise.all.           *)
(***************************************************************************)
fetchChannelGroupsResolved(f, ok) ==
    /\ BagIn(f, fetches)
    /\ f.pc = "fetchChannelGroups"
    /\ groupsLoaded' = (groupsLoaded \/ ok)
    /\ LET resumed == AwaitingAll(f.pagination, f.initialDataCount)
           calls == Calls(f.pagination, f.sorting, f.debouncedFilters)
       IN IF groupsLoaded' # groupsLoaded
          THEN /\ fetchDataInitial' = initialDataCount
               /\ fetches' = ((fetches (-) BagOf(f)) (+) BagOf(resumed))
                             (+) BagOf(StartFetch(pagination, sorting, debouncedFilters,
                                                  groupsLoaded', channelGroups,
                                                  initialDataCount))
               /\ requests' = <<calls>> \o StartCalls(pagination, sorting,
                                                      debouncedFilters, groupsLoaded',
                                                      channelGroups)
          ELSE /\ fetches' = (fetches (-) BagOf(f)) (+) BagOf(resumed)
               /\ requests' = <<calls>>
               /\ UNCHANGED fetchDataInitial
    /\ lastEvent' = Event(IF ok THEN "groupsOk" ELSE "groupsFailed", 0, "")
    /\ UNCHANGED <<queryVars, resultVars, isLoading, channelGroups,
                   selectedStreamIds, modalOpen, bulk>>
    /\ UNCHANGED csVars
    /\ UNCHANGED previewVars
    /\ UNCHANGED appVars

(***************************************************************************)
(* fetchData resumes after await Promise.all([...]).                       *)
(***************************************************************************)
\* Math.ceil(count / pageSize)
CeilDiv(count, size) == (count + size - 1) \div size

RangeString(pg, count) ==
    LET startItem == pg.pageIndex * pg.pageSize + 1
        endItem == IF (pg.pageIndex + 1) * pg.pageSize < count
                   THEN (pg.pageIndex + 1) * pg.pageSize ELSE count
    IN ToString(startItem) \o " to " \o ToString(endItem) \o " of " \o ToString(count)

\* fetchSucceeded with a sequencing check: the answer to a query that is
\* no longer the current one is dropped
fetchSucceededLatestOnly(f, r) ==
    /\ BagIn(f, fetches)
    /\ f.pc = "Promise.all"
    /\ IF f.pagination = pagination
       THEN /\ allRowIds' = r.ids
            /\ data' = r.results
            /\ pageCount' = CeilDiv(r.count, f.pagination.pageSize)
            /\ groupOptions' = r.groups
            /\ initialDataCount' = IF f.initialDataCount = Null
                                   THEN r.count ELSE initialDataCount
            /\ paginationString' = RangeString(f.pagination, r.count)
       ELSE UNCHANGED resultVars
    /\ isLoading' = FALSE
    /\ fetches' = fetches (-) BagOf(f)
    /\ lastEvent' = Event("fetchOk", 0, "")
    /\ requests' = <<>>
    /\ UNCHANGED <<queryVars, groupsLoaded, channelGroups, fetchDataInitial,
                   selectedStreamIds, modalOpen, bulk>>
    /\ UNCHANGED csVars
    /\ UNCHANGED previewVars
    /\ UNCHANGED appVars

\* fetchSucceeded reading pagination as it is when the answer arrives
fetchSucceededCurrentPage(f, r) ==
    /\ BagIn(f, fetches)
    /\ f.pc = "Promise.all"
    /\ allRowIds' = r.ids
    /\ data' = r.results
    /\ pageCount' = CeilDiv(r.count, pagination.pageSize)
    /\ groupOptions' = r.groups
    /\ initialDataCount' = IF f.initialDataCount = Null
                           THEN r.count ELSE initialDataCount
    /\ paginationString' = RangeString(pagination, r.count)
    /\ isLoading' = FALSE
    /\ fetches' = fetches (-) BagOf(f)
    /\ lastEvent' = Event("fetchOk", 0, "")
    /\ requests' = <<>>
    /\ UNCHANGED <<queryVars, groupsLoaded, channelGroups, fetchDataInitial,
                   selectedStreamIds, modalOpen, bulk>>
    /\ UNCHANGED csVars
    /\ UNCHANGED previewVars
    /\ UNCHANGED appVars

\* fetchSucceeded keeping the ids of the loaded page as the id list
fetchSucceededPageIds(f, r) ==
    /\ BagIn(f, fetches)
    /\ f.pc = "Promise.all"
    /\ allRowIds' = r.results
    /\ data' = r.results
    /\ pageCount' = CeilDiv(r.count, f.pagination.pageSize)
    /\ groupOptions' = r.groups
    /\ initialDataCount' = IF f.initialDataCount = Null
                           THEN r.count ELSE initialDataCount
    /\ paginationString' = RangeString(f.pagination, r.count)
    /\ isLoading' = FALSE
    /\ fetches' = fetches (-) BagOf(f)
    /\ lastEvent' = Event("fetchOk", 0, "")
    /\ requests' = <<>>
    /\ UNCHANGED <<queryVars, groupsLoaded, channelGroups, fetchDataInitial,
                   selectedStreamIds, modalOpen, bulk>>
    /\ UNCHANGED csVars
    /\ UNCHANGED previewVars
    /\ UNCHANGED appVars

fetchSucceeded(f, r) ==
    /\ BagIn(f, fetches)
    /\ f.pc = "Promise.all"
    /\ allRowIds' = r.ids
    /\ data' = r.results
    /\ pageCount' = CeilDiv(r.count, f.pagination.pageSize)
    /\ groupOptions' = r.groups
    /\ initialDataCount' = IF f.initialDataCount = Null
                           THEN r.count ELSE initialDataCount
    /\ paginationString' = RangeString(f.pagination, r.count)
    /\ isLoading' = FALSE
    /\ fetches' = fetches (-) BagOf(f)
    /\ lastEvent' = Event("fetchOk", 0, "")
    /\ requests' = <<>>
    /\ UNCHANGED <<queryVars, groupsLoaded, channelGroups, fetchDataInitial,
                   selectedStreamIds, modalOpen, bulk>>
    /\ UNCHANGED csVars
    /\ UNCHANGED previewVars
    /\ UNCHANGED appVars

\* a catch branch that empties the table
fetchFailedClears(f, rejected) ==
    /\ BagIn(f, fetches)
    /\ f.pc = "Promise.all"
    /\ data' = <<>>
    /\ allRowIds' = <<>>
    /\ isLoading' = FALSE
    /\ fetches' = fetches (-) BagOf(f)
    /\ rejected \in Outcomes \ {"ok"}
    /\ lastEvent' = Event("fetchFailed", 0, "")
    /\ requests' = <<>>
    /\ UNCHANGED <<queryVars, pageCount, paginationString, groupOptions,
                   initialDataCount, groupsLoaded, channelGroups,
                   fetchDataInitial, selectedStreamIds, modalOpen, bulk>>
    /\ UNCHANGED csVars
    /\ UNCHANGED previewVars
    /\ UNCHANGED appVars

\* a catch branch that calls fetchData again
fetchFailedRetries(f, rejected) ==
    /\ BagIn(f, fetches)
    /\ f.pc = "Promise.all"
    /\ isLoading' = TRUE
    /\ fetches' = (fetches (-) BagOf(f))
                  (+) BagOf(StartFetch(pagination, sorting, debouncedFilters,
                                       groupsLoaded, channelGroups, fetchDataInitial))
    /\ rejected \in Outcomes \ {"ok"}
    /\ lastEvent' = Event("fetchFailed", 0, "")
    /\ requests' = StartCalls(pagination, sorting, debouncedFilters, groupsLoaded,
                              channelGroups)
    /\ UNCHANGED <<queryVars, resultVars, groupsLoaded, channelGroups,
                   fetchDataInitial, selectedStreamIds, modalOpen, bulk>>
    /\ UNCHANGED csVars
    /\ UNCHANGED previewVars
    /\ UNCHANGED appVars

\* the catch branch: console.error, nothing applied
fetchFailed(f, rejected) ==
    /\ BagIn(f, fetches)
    /\ f.pc = "Promise.all"
    /\ isLoading' = FALSE
    /\ fetches' = fetches (-) BagOf(f)
    /\ rejected \in Outcomes \ {"ok"}
    /\ lastEvent' = Event("fetchFailed", 0, "")
    /\ requests' = <<>>
    /\ UNCHANGED <<queryVars, resultVars, groupsLoaded, channelGroups,
                   fetchDataInitial, selectedStreamIds, modalOpen, bulk>>
    /\ UNCHANGED csVars
    /\ UNCHANGED previewVars
    /\ UNCHANGED appVars

(***************************************************************************)
(* The stream form: editStream opens it, closeStreamForm closes it and     *)
(* calls the fetchData of the current render.                              *)
(***************************************************************************)
editStream ==
    /\ ~modalOpen
    /\ modalOpen' = TRUE
    /\ lastEvent' = Event("editStream", 0, "")
    /\ requests' = <<>>
    /\ UNCHANGED <<queryVars, resultVars, isLoading, groupsLoaded, channelGroups,
                   fetchDataInitial, fetches, selectedStreamIds, bulk>>
    /\ UNCHANGED csVars
    /\ UNCHANGED previewVars
    /\ UNCHANGED appVars

closeStreamForm ==
    /\ modalOpen
    /\ modalOpen' = FALSE
    /\ fetches' = fetches (+) BagOf(StartFetch(pagination, sorting, debouncedFilters,
                                               groupsLoaded, channelGroups,
                                               fetchDataInitial))
    /\ requests' = StartCalls(pagination, sorting, debouncedFilters, groupsLoaded,
                              channelGroups)
    /\ isLoading' = TRUE
    /\ lastEvent' = Event("closeStreamForm", 0, "")
    /\ UNCHANGED <<queryVars, resultVars, groupsLoaded, channelGroups,
                   fetchDataInitial, selectedStreamIds, bulk>>
    /\ UNCHANGED csVars
    /\ UNCHANGED previewVars
    /\ UNCHANGED appVars

(***************************************************************************)
(* Selection and the bulk operations on it.  Neither bulk operation has a  *)
(* try/catch: a rejected await ends the async function where it stands.    *)
(***************************************************************************)
onRowSelectionChange(updatedIds) ==
    /\ selectedStreamIds' = updatedIds
    /\ lastEvent' = Event("select", 0, "")
    /\ requests' = <<>>
    /\ UNCHANGED <<queryVars, resultVars, isLoading, groupsLoaded, channelGroups,
                   fetchDataInitial, fetches, modalOpen, bulk>>
    /\ UNCHANGED csVars
    /\ UNCHANGED previewVars
    /\ UNCHANGED appVars

(***************************************************************************)
(* The select-all checkbox of the table header.  The table (useTable) is   *)
(* handed allRowIds and reports every change of its selection through      *)
(* onRowSelectionChange; select-all adds the ids of allRowIds.             *)
(***************************************************************************)
Range(seq) == { seq[i] : i \in 1 .. Len(seq) }

SelectAllIds(selected, ids) == selected \cup Range(ids)

selectAll ==
    /\ selectedStreamIds' = SelectAllIds(selectedStreamIds, allRowIds)
    /\ lastEvent' = Event("selectAll", 0, "")
    /\ requests' = <<>>
    /\ UNCHANGED <<queryVars, resultVars, isLoading, groupsLoaded, channelGroups,
                   fetchDataInitial, fetches, modalOpen, bulk>>
    /\ UNCHANGED csVars
    /\ UNCHANGED previewVars
    /\ UNCHANGED appVars

BulkStep(before, after, op, loading) ==
    /\ bulk' = (bulk (-) before) (+) after
    /\ isLoading' = loading
    /\ lastEvent' = Event(op, 0, "")
    /\ requests' = <<>>
    /\ UNCHANGED <<queryVars, resultVars, groupsLoaded, channelGroups,
                   fetchDataInitial, fetches, selectedStreamIds, modalOpen>>
    /\ UNCHANGED csVars
    /\ UNCHANGED previewVars
    /\ UNCHANGED appVars

\* the Create Channels button: disabled={selectedStreamIds.length == 0}
createChannelsFromStreams ==
    /\ selectedStreamIds # {}
    /\ BagCardinality(bulk) < MaxBulk
    /\ BulkStep(EmptyBag, BagOf("createChannelsFromStreams"), "create", TRUE)

createChannelsResolved(ok) ==
    /\ BagIn("createChannelsFromStreams", bulk)
    /\ IF ok
       THEN BulkStep(BagOf("createChannelsFromStreams"), BagOf("requeryChannels"),
                     "createOk", isLoading)
       ELSE BulkStep(BagOf("createChannelsFromStreams"), EmptyBag,
                     "createFailed", isLoading)

requeryChannelsResolved(ok) ==
    /\ BagIn("requeryChannels", bulk)
    /\ IF ok
       THEN BulkStep(BagOf("requeryChannels"), EmptyBag, "requeryOk", FALSE)
       ELSE BulkStep(BagOf("requeryChannels"), EmptyBag, "requeryFailed", isLoading)

\* the Remove button: disabled={selectedStreamIds.length == 0}
deleteStreams ==
    /\ selectedStreamIds # {}
    /\ BagCardinality(bulk) < MaxBulk
    /\ BulkStep(EmptyBag, BagOf("deleteStreams"), "delete", TRUE)

deleteStreamsResolved(ok) ==
    /\ BagIn("deleteStreams", bulk)
    /\ IF ok
       THEN BulkStep(BagOf("deleteStreams"), EmptyBag, "deleteOk", FALSE)
       ELSE BulkStep(BagOf("deleteStreams"), EmptyBag, "deleteFailed", isLoading)

(***************************************************************************)
(* ChannelStreams (components/forms/M3UProfile.jsx): the streams of one    *)
(* channel, reordered by drag and drop.  The rows are drawn from data, the *)
(* local copy of the store's channelStreams; DndContext (dnd-kit) runs the *)
(* drag sessions and calls handleDragEnd with the dragged row (active) and *)
(* the row it was dropped over (over, or null).                            *)
(***************************************************************************)
\* user_level of the signed-in user
UserLevels == {"STANDARD", "ADMIN"}

\* the auth store gets the signed-in user
authUserLoaded(level) ==
    /\ level # authUser
    /\ authUser' = level
    /\ lastDrag' = DragEvent("authUser", NoRow, NoRow)
    /\ UNCHANGED <<channelStreams, channelData, dragging, updates, requeries>>
    /\ UNCHANGED tableVars
    /\ UNCHANGED previewVars
    /\ UNCHANGED appVars

\* dataIds.indexOf(id): zero-based, -1 when absent
IndexOf(ids, id) ==
    IF \E i \in 1 .. Len(ids) : ids[i] = id
    THEN (CHOOSE i \in 1 .. Len(ids) :
              ids[i] = id /\ \A j \in 1 .. i - 1 : ids[j] # id) - 1
    ELSE -1

\* an arrayMove that exchanges the two rows
ArraySwap(array, from, to) ==
    [i \in 1 .. Len(array) |->
        IF i = from + 1 /\ to + 1 \in 1 .. Len(array) THEN array[to + 1]
        ELSE IF i = to + 1 /\ from + 1 \in 1 .. Len(array) THEN array[from + 1]
        ELSE array[i]]

\* arrayMove of @dnd-kit/sortable:
\*   newArray.splice(to < 0 ? newArray.length + to : to, 0,
\*                   newArray.splice(from, 1)[0])
\* the position of the insertion is computed before the removal; splice
\* takes a negative start from the end and clamps a start beyond the end
ArrayMove(array, from, to) ==
    LET len == Len(array)
        target == IF to < 0 THEN len + to ELSE to
        start == IF from < 0
                 THEN (IF len + from < 0 THEN 0 ELSE len + from)
                 ELSE (IF from > len THEN len ELSE from)
        removed == IF start < len THEN << array[start + 1] >> ELSE <<>>
        rest == SubSeq(array, 1, start) \o SubSeq(array, start + 2, len)
        at == IF target > Len(rest) THEN Len(rest) ELSE target
    IN SubSeq(rest, 1, at) \o removed \o SubSeq(rest, at + 1, Len(rest))

\* API.updateChannel({...channelUpdate, streams: retval.map((row) => row.id)})
UpdateChannel(retval) == [streams |-> retval]

\* the drag handle: useDraggable's listeners start a drag session
grab(rowId) ==
    /\ dragging = NoRow
    /\ rowId \in Range(channelData)
    /\ dragging' = rowId
    /\ lastDrag' = DragEvent("grab", rowId, NoRow)
    /\ UNCHANGED <<authUser, channelStreams, channelData, updates, requeries>>
    /\ UNCHANGED tableVars
    /\ UNCHANGED previewVars
    /\ UNCHANGED appVars

\* a handler without the test active.id !== over.id
handleDragEndOverItself(over) ==
    /\ dragging # NoRow
    /\ dragging' = NoRow
    /\ IF authUser # "ADMIN"
       THEN /\ lastDrag' = DragEvent("rejected", dragging, over)
            /\ UNCHANGED <<channelData, updates>>
       ELSE IF over # NoRow
            THEN LET oldIndex == IndexOf(channelData, dragging)
                     newIndex == IndexOf(channelData, over)
                     retval == ArrayMove(channelData, oldIndex, newIndex)
                 IN /\ channelData' = retval
                    /\ updates' = updates (+) BagOf(UpdateChannel(retval))
                    /\ lastDrag' = DragEvent("drop", dragging, over)
            ELSE /\ lastDrag' = DragEvent("cancel", dragging, over)
                 /\ UNCHANGED <<channelData, updates>>
    /\ UNCHANGED <<authUser, channelStreams, requeries>>
    /\ UNCHANGED tableVars
    /\ UNCHANGED previewVars
    /\ UNCHANGED appVars

\* onDragEnd={handleDragEnd}: the session ends and the handler runs
handleDragEnd(over) ==
    /\ dragging # NoRow
    /\ dragging' = NoRow
    /\ IF authUser # "ADMIN"
       THEN /\ lastDrag' = DragEvent("rejected", dragging, over)
            /\ UNCHANGED <<channelData, updates>>
       ELSE IF over # NoRow /\ dragging # over
            THEN LET oldIndex == IndexOf(channelData, dragging)
                     newIndex == IndexOf(channelData, over)
                     retval == ArrayMove(channelData, oldIndex, newIndex)
                 IN /\ channelData' = retval
                    /\ updates' = updates (+) BagOf(UpdateChannel(retval))
                    /\ lastDrag' = DragEvent("drop", dragging, over)
            ELSE /\ lastDrag' = DragEvent("cancel", dragging, over)
                 /\ UNCHANGED <<channelData, updates>>
    /\ UNCHANGED <<authUser, channelStreams, requeries>>
    /\ UNCHANGED tableVars
    /\ UNCHANGED previewVars
    /\ UNCHANGED appVars

\* data.filter((s) => s.id !== stream.id)
Without(order, row) == SelectSeq(order, LAMBDA r : r # row)

\* removeStream(row.original), the onClick of the SquareMinus icon of a row.
\* The handler does not read authUser; disabled={...} is a property of the
\* icon (an svg element), which does not keep the click from the handler.
\* The awaited calls continue as the calls of a drop do: requeryChannels
\* after an acknowledged updateChannel, nothing after a rejected one.
removeStream(rowId) ==
    /\ rowId \in Range(channelData)
    /\ updates' = updates (+) BagOf(UpdateChannel(Without(channelData, rowId)))
    /\ lastDrag' = DragEvent("remove", rowId, NoRow)
    /\ UNCHANGED <<authUser, channelStreams, channelData, dragging, requeries>>
    /\ UNCHANGED tableVars
    /\ UNCHANGED previewVars
    /\ UNCHANGED appVars

\* a rejection handler that puts the store's order back
updateChannelResolvedRollsBack(u, ok) ==
    /\ BagIn(u, updates)
    /\ updates' = updates (-) BagOf(u)
    /\ requeries' = IF ok THEN requeries + 1 ELSE requeries
    /\ channelData' = IF ok THEN channelData ELSE channelStreams
    /\ lastDrag' = DragEvent(IF ok THEN "persistOk" ELSE "persistFailed", NoRow, NoRow)
    /\ UNCHANGED <<authUser, channelStreams, dragging>>
    /\ UNCHANGED tableVars
    /\ UNCHANGED previewVars
    /\ UNCHANGED appVars

\* an acknowledgement that is not followed by API.requeryChannels()
updateChannelResolvedNoRequery(u, ok) ==
    /\ BagIn(u, updates)
    /\ updates' = updates (-) BagOf(u)
    /\ lastDrag' = DragEvent(IF ok THEN "persistOk" ELSE "persistFailed", NoRow, NoRow)
    /\ UNCHANGED <<authUser, channelStreams, channelData, dragging, requeries>>
    /\ UNCHANGED tableVars
    /\ UNCHANGED previewVars
    /\ UNCHANGED appVars

\* API.updateChannel(...) settles: .then(() => API.requeryChannels()); a
\* rejection has no handler
updateChannelResolved(u, ok) ==
    /\ BagIn(u, updates)
    /\ updates' = updates (-) BagOf(u)
    /\ requeries' = IF ok THEN requeries + 1 ELSE requeries
    /\ lastDrag' = DragEvent(IF ok THEN "persistOk" ELSE "persistFailed", NoRow, NoRow)
    /\ UNCHANGED <<authUser, channelStreams, channelData, dragging>>
    /\ UNCHANGED tableVars
    /\ UNCHANGED previewVars
    /\ UNCHANGED appVars

\* API.requeryChannels() settles.  On success the store holds the channel's
\* streams as the server has them, and the effect on [channelStreams] copies
\* them into data.
requeryAfterDropResolved(ok, order) ==
    /\ requeries > 0
    /\ requeries' = requeries - 1
    /\ IF ok
       THEN /\ channelStreams' = order
            /\ channelData' = order
       ELSE UNCHANGED <<channelStreams, channelData>>
    /\ lastDrag' = DragEvent(IF ok THEN "requeryOk" ELSE "requeryFailed", NoRow, NoRow)
    /\ UNCHANGED <<authUser, dragging, updates>>
    /\ UNCHANGED tableVars
    /\ UNCHANGED previewVars
    /\ UNCHANGED appVars

\* stream lists the server may hold once a stream has been removed
ServerLists == {InitialStreams, <<2, 3, 4>>}

\* orders the server may hold for the channel
ServerOrders == {InitialStreams, <<2, 1, 3, 4>>}

(***************************************************************************)
(* RegexFormAndView (components/forms/M3UProfile.jsx): the form of an M3U  *)
(* profile with its live preview.  Strings are sequences of characters;    *)
(* '' is the empty sequence.  The mount is that of a new profile           *)
(* (profile = null) of a playlist with an id: the patterns are '', the     *)
(* debounce effect has scheduled its first timeout, fetchStreamUrl awaits  *)
(* API.queryStreams, and the send effect has returned at its guard.        *)
(***************************************************************************)
\* search patterns typed: '', 'a', '.b', and '(' (an unterminated group)
SearchInputs == {<<>>, <<"a">>, <<".", "b">>, <<"(">>}
\* replace patterns typed
ReplaceInputs == {<<>>, <<"x">>}
\* sample texts typed
SampleInputs == {<<>>, <<"a", "b", "a">>}
\* response.results of the stream query: none, or a stream with its url
StreamResults == {<<>>, << <<"a", "b">> >>}

\* new RegExp(pattern, 'g') throws a SyntaxError for an unterminated group
Compiles(pattern) == \A i \in 1 .. Len(pattern) : pattern[i] # "("

\* the regex matches at position i of the input: a character matches
\* itself, '.' matches any character
MatchesAt(regex, input, i) ==
    /\ i + Len(regex) - 1 <= Len(input)
    /\ \A k \in 1 .. Len(regex) : regex[k] = "." \/ regex[k] = input[i + k - 1]

\* input.replace(regex, ...) with the g flag, from position i on: every
\* match, leftmost first and not overlapping, is replaced, by the match
\* wrapped in <mark> (mark) or by the replacement string
RECURSIVE StringReplace(_, _, _, _, _)
StringReplace(input, regex, i, mark, replacement) ==
    IF i > Len(input) THEN <<>>
    ELSE IF MatchesAt(regex, input, i)
         THEN (IF mark
               THEN <<"<mark>">> \o SubSeq(input, i, i + Len(regex) - 1)
                                 \o <<"</mark>">>
               ELSE replacement)
              \o StringReplace(input, regex, i + Len(regex), mark, replacement)
         ELSE <<input[i]>> \o StringReplace(input, regex, i + 1, mark, replacement)

\* what a view shows when a SyntaxError reaches it
Thrown == <<"SyntaxError">>

getHighlightedSearchText ==
    IF searchPattern = <<>> \/ sampleInput = <<>> THEN sampleInput
    ELSE IF Compiles(searchPattern)
         THEN StringReplace(sampleInput, searchPattern, 1, TRUE, <<>>)
         ELSE sampleInput

\* getLocalReplaceResult without its try / catch
getLocalReplaceResultUncaught ==
    IF searchPattern = <<>> \/ sampleInput = <<>> THEN sampleInput
    ELSE IF Compiles(searchPattern)
         THEN StringReplace(sampleInput, searchPattern, 1, FALSE, replacePattern)
         ELSE Thrown

getLocalReplaceResult ==
    IF searchPattern = <<>> \/ sampleInput = <<>> THEN sampleInput
    ELSE IF Compiles(searchPattern)
         THEN StringReplace(sampleInput, searchPattern, 1, FALSE, replacePattern)
         ELSE sampleInput

\* debouncedPatterns[key] || ''
PatternOrEmpty(patterns, key) ==
    IF key \in DOMAIN patterns THEN patterns[key] ELSE <<>>

\* the send effect, run because one of its dependencies changed
SendEffect(ready, url, patterns, sample) ==
    IF ~ready \/ url = <<>>
    THEN <<>>
    ELSE << [type |-> "m3u_profile_test",
             url |-> IF sample # <<>> THEN sample ELSE url,
             search |-> PatternOrEmpty(patterns, "search"),
             replace |-> PatternOrEmpty(patterns, "replace")] >>

\* the record of an edit of a pattern: n counts the consecutive edits (up
\* to 2), col is "both" once both patterns were edited in the burst
PatternEdit(op) ==
    IF lastPreview.op \in {"search", "replace"}
    THEN Event(op, 2, IF lastPreview.op # op \/ lastPreview.col = "both"
                      THEN "both" ELSE "")
    ELSE Event(op, 1, "")

\* the debounce effect on [searchPattern, replacePattern]: its cleanup
\* clears the pending timeout, then a new one is set
SchedulePatterns(search, replace) ==
    IF search = searchPattern /\ replace = replacePattern
    THEN patternTimer
    ELSE << Patterns(search, replace) >>

\* useWebSocket reports the socket open or closed
websocketChanged(ready) ==
    /\ ready # websocketReady
    /\ websocketReady' = ready
    /\ previews' = SendEffect(ready, streamUrl, debouncedPatterns, sampleInput)
    /\ lastPreview' = Event("websocket", 0, "")
    /\ UNCHANGED <<streamUrlFetch, streamUrl, searchPattern, replacePattern,
                   debouncedPatterns, patternTimer, sampleInput>>
    /\ UNCHANGED <<tableVars, csVars>>
    /\ UNCHANGED appVars

\* fetchStreamUrl resumes after await API.queryStreams(params); a rejection
\* is caught and logged
fetchStreamUrlResolved(ok, results) ==
    /\ streamUrlFetch
    /\ streamUrlFetch' = FALSE
    /\ IF ok /\ Len(results) > 0
       THEN /\ streamUrl' = results[1]
            /\ sampleInput' = results[1]
            /\ previews' = SendEffect(websocketReady, streamUrl', debouncedPatterns,
                                      sampleInput')
       ELSE /\ previews' = <<>>
            /\ UNCHANGED <<streamUrl, sampleInput>>
    /\ lastPreview' = Event("streamUrl", 0, "")
    /\ UNCHANGED <<websocketReady, searchPattern, replacePattern, debouncedPatterns,
                   patternTimer>>
    /\ UNCHANGED <<tableVars, csVars>>
    /\ UNCHANGED appVars

onSearchPatternUpdate(value) ==
    /\ searchPattern' = value
    /\ patternTimer' = SchedulePatterns(value, replacePattern)
    /\ previews' = <<>>
    /\ lastPreview' = PatternEdit("search")
    /\ UNCHANGED <<websocketReady, streamUrlFetch, streamUrl, replacePattern,
                   debouncedPatterns, sampleInput>>
    /\ UNCHANGED <<tableVars, csVars>>
    /\ UNCHANGED appVars

\* onReplacePatternUpdate committing and sending at once
onReplacePatternUpdateAtOnce(value) ==
    /\ replacePattern' = value
    /\ debouncedPatterns' = Patterns(searchPattern, value)
    /\ previews' = SendEffect(websocketReady, streamUrl, debouncedPatterns',
                              sampleInput)
    /\ lastPreview' = PatternEdit("replace")
    /\ UNCHANGED <<websocketReady, streamUrlFetch, streamUrl, searchPattern,
                   patternTimer, sampleInput>>
    /\ UNCHANGED <<tableVars, csVars>>
    /\ UNCHANGED appVars

onReplacePatternUpdate(value) ==
    /\ replacePattern' = value
    /\ patternTimer' = SchedulePatterns(searchPattern, value)
    /\ previews' = <<>>
    /\ lastPreview' = PatternEdit("replace")
    /\ UNCHANGED <<websocketReady, streamUrlFetch, streamUrl, searchPattern,
                   debouncedPatterns, sampleInput>>
    /\ UNCHANGED <<tableVars, csVars>>
    /\ UNCHANGED appVars

\* the timeout of the debounce effect: setDebouncedPatterns with a new
\* object, so the send effect runs
patternsTimeout ==
    /\ patternTimer # <<>>
    /\ debouncedPatterns' = patternTimer[1]
    /\ patternTimer' = <<>>
    /\ previews' = SendEffect(websocketReady, streamUrl, debouncedPatterns',
                              sampleInput)
    /\ lastPreview' = IF lastPreview.op \in {"search", "replace"}
                      THEN Event("patternsCommit", lastPreview.n, lastPreview.col)
                      ELSE Event("patternsCommit", 0, "")
    /\ UNCHANGED <<websocketReady, streamUrlFetch, streamUrl, searchPattern,
                   replacePattern, sampleInput>>
    /\ UNCHANGED <<tableVars, csVars>>
    /\ UNCHANGED appVars

\* the sample text input; sampleInput is a dependency of the send effect
handleSampleInputChange(value) ==
    /\ sampleInput' = value
    /\ previews' = IF value = sampleInput THEN <<>>
                   ELSE SendEffect(websocketReady, streamUrl, debouncedPatterns, value)
    /\ lastPreview' = Event("sample", 0, "")
    /\ UNCHANGED <<websocketReady, streamUrlFetch, streamUrl, searchPattern,
                   replacePattern, debouncedPatterns, patternTimer>>
    /\ UNCHANGED <<tableVars, csVars>>
    /\ UNCHANGED appVars

(***************************************************************************)
(* App (App.js): the two effects of the first render.  checkSuperuser      *)
(* awaits API.fetchSuperUser; checkAuth awaits initializeAuth, then        *)
(* initData or logout.  After the mount both are suspended at their first  *)
(* await.  On a 401 checkSuperuser assigns window.location.href: the page  *)
(* is unloaded at some later moment, whatever is still pending then.       *)
(***************************************************************************)
\* where checkAuth can stand: at one of its awaits ("logout" is the call of
\* the else branch, "logoutCatch" that of the catch block), returned
\* ("done"), or ended by a rejection of the logout in the catch block
CheckAuthAt == {"initializeAuth", "initData", "logout", "logoutCatch", "done",
                "rejected"}
\* how API.fetchSuperUser settles: a superuser exists, none exists, a 401,
\* another error
SuperUserOutcomes == {"exists", "none", "401", "error"}
\* how initializeAuth settles
AuthOutcomes == {"true", "false", "throws"}

toggleDrawer ==
    /\ ~unloaded
    /\ open' = ~open
    /\ lastStart' = StartEvent("toggleDrawer", "")
    /\ UNCHANGED <<checkSuperuser, superuserExists, token, href, unloaded, checkAuth,
                   loggedIn, initDataCalls, logoutCalls, dataInitialised>>
    /\ UNCHANGED <<tableVars, csVars, previewVars>>

\* checkSuperuser resumes after await API.fetchSuperUser()
fetchSuperUserSettled(outcome) ==
    /\ ~unloaded
    /\ checkSuperuser = "fetchSuperUser"
    /\ checkSuperuser' = "done"
    /\ superuserExists' = IF outcome = "none" THEN FALSE ELSE superuserExists
    /\ token' = IF outcome = "401" THEN FALSE ELSE token
    /\ href' = IF outcome = "401" THEN "/login" ELSE href
    /\ lastStart' = StartEvent("fetchSuperUser", outcome)
    /\ UNCHANGED <<open, unloaded, checkAuth, loggedIn, initDataCalls, logoutCalls,
                   dataInitialised>>
    /\ UNCHANGED <<tableVars, csVars, previewVars>>

\* the navigation started by window.location.href = '/login' unloads the page
pageUnloaded ==
    /\ ~unloaded
    /\ href = "/login"
    /\ unloaded' = TRUE
    /\ lastStart' = StartEvent("unload", "")
    /\ UNCHANGED <<open, checkSuperuser, superuserExists, token, href, checkAuth,
                   loggedIn, initDataCalls, logoutCalls, dataInitialised>>
    /\ UNCHANGED <<tableVars, csVars, previewVars>>

\* checkAuth resumes after await initializeAuth()
initializeAuthSettled(outcome) ==
    /\ ~unloaded
    /\ checkAuth = "initializeAuth"
    /\ loggedIn' = outcome
    /\ checkAuth' = CASE outcome = "true" -> "initData"
                      [] outcome = "false" -> "logout"
                      [] OTHER -> "logoutCatch"
    /\ initDataCalls' = IF outcome = "true" THEN initDataCalls + 1 ELSE initDataCalls
    /\ logoutCalls' = IF outcome = "true" THEN logoutCalls ELSE logoutCalls + 1
    /\ lastStart' = StartEvent("initializeAuth", outcome)
    /\ UNCHANGED <<open, checkSuperuser, superuserExists, token, href, unloaded,
                   dataInitialised>>
    /\ UNCHANGED <<tableVars, csVars, previewVars>>

\* initDataSettled without the catch block: a rejection ends checkAuth
initDataSettledUncaught(ok) ==
    /\ ~unloaded
    /\ checkAuth = "initData"
    /\ checkAuth' = IF ok THEN "done" ELSE "rejected"
    /\ dataInitialised' = ok
    /\ lastStart' = StartEvent("initData", IF ok THEN "resolves" ELSE "throws")
    /\ UNCHANGED <<open, checkSuperuser, superuserExists, token, href, unloaded,
                   loggedIn, initDataCalls, logoutCalls>>
    /\ UNCHANGED <<tableVars, csVars, previewVars>>

\* checkAuth resumes after await initData(); a rejection goes to the catch
\* block, which calls logout
initDataSettled(ok) ==
    /\ ~unloaded
    /\ checkAuth = "initData"
    /\ checkAuth' = IF ok THEN "done" ELSE "logoutCatch"
    /\ dataInitialised' = ok
    /\ logoutCalls' = IF ok THEN logoutCalls ELSE logoutCalls + 1
    /\ lastStart' = StartEvent("initData", IF ok THEN "resolves" ELSE "throws")
    /\ UNCHANGED <<open, checkSuperuser, superuserExists, token, href, unloaded,
                   loggedIn, initDataCalls>>
    /\ UNCHANGED <<tableVars, csVars, previewVars>>

\* checkAuth resumes after await logout().  A rejection in the else branch
\* goes to the catch block, which calls logout again; a rejection in the
\* catch block rejects checkAuth's promise, which nothing handles.
logoutSettled(ok) ==
    /\ ~unloaded
    /\ checkAuth \in {"logout", "logoutCatch"}
    /\ checkAuth' = IF ok THEN "done"
                    ELSE IF checkAuth = "logout" THEN "logoutCatch" ELSE "rejected"
    /\ logoutCalls' = IF ~ok /\ checkAuth = "logout"
                      THEN logoutCalls + 1 ELSE logoutCalls
    /\ lastStart' = StartEvent("logout", IF ok THEN "resolves" ELSE "throws")
    /\ UNCHANGED <<open, checkSuperuser, superuserExists, token, href, unloaded,
                   loggedIn, initDataCalls, dataInitialised>>
    /\ UNCHANGED <<tableVars, csVars, previewVars>>

(***************************************************************************)
(* The whole table: every handler and every continuation.                  *)
(***************************************************************************)
\* renderHeaderCell: the sort icon of a header
\*   ArrowUpDown unless sorting[0]?.id == header.id, then ArrowUpNarrowWide
\*   if sorting[0].desc === false, else ArrowDownWideNarrow
SortingIcon(so, headerId) ==
    IF Len(so) > 0 /\ so[1].id = headerId
    THEN (IF DescStrictEqFalse(so[1].desc)
          THEN "ArrowUpNarrowWide"
          ELSE "ArrowDownWideNarrow")
    ELSE "ArrowUpDown"

\* ids the table hands to onRowSelectionChange
RowIds == {1, 2}

Next ==
    \/ \E value \in NameInputs : handleFilterChange(value)
    \/ \E value \in GroupInputs : handleGroupChange(value)
    \/ \E value \in M3UInputs : handleM3UChange(value)
    \/ debounceTimeout
    \/ \E value \in PageSizeOptions \ {pagination.pageSize} : onPageSizeChange(value)
    \/ \E pageIndex \in PageArgs : onPageIndexChange(pageIndex)
    \/ \E column \in SortColumns : onSortingChange(column)
    \/ \E value \in {"empty", "loaded"} : channelGroupsUpdated(value)
    \/ \E f \in BagToSet(fetches), ok \in BOOLEAN : fetchChannelGroupsResolved(f, ok)
    \/ \E f \in BagToSet(fetches), r \in Responses : fetchSucceeded(f, r)
    \/ \E f \in BagToSet(fetches), rejected \in Outcomes \ {"ok"} : fetchFailed(f, rejected)
    \/ editStream
    \/ closeStreamForm
    \/ \E updatedIds \in SUBSET RowIds : onRowSelectionChange(updatedIds)
    \/ selectAll
    \/ createChannelsFromStreams
    \/ \E ok \in BOOLEAN : createChannelsResolved(ok)
    \/ \E ok \in BOOLEAN : requeryChannelsResolved(ok)
    \/ deleteStreams
    \/ \E ok \in BOOLEAN : deleteStreamsResolved(ok)
    \/ \E level \in UserLevels : authUserLoaded(level)
    \/ \E rowId \in Range(channelData) : grab(rowId)
    \/ \E over \in Range(channelData) \cup {NoRow} : handleDragEnd(over)
    \/ \E u \in BagToSet(updates), ok \in BOOLEAN : updateChannelResolved(u, ok)
    \/ \E ok \in BOOLEAN, order \in ServerOrders : requeryAfterDropResolved(ok, order)
    \/ \E rowId \in Range(channelData) : removeStream(rowId)
    \/ \E ready \in BOOLEAN : websocketChanged(ready)
    \/ \E ok \in BOOLEAN, results \in StreamResults : fetchStreamUrlResolved(ok, results)
    \/ \E value \in SearchInputs : onSearchPatternUpdate(value)
    \/ \E value \in ReplaceInputs : onReplacePatternUpdate(value)
    \/ patternsTimeout
    \/ \E value \in SampleInputs : handleSampleInputChange(value)
    \/ toggleDrawer
    \/ \E outcome \in SuperUserOutcomes : fetchSuperUserSettled(outcome)
    \/ pageUnloaded
    \/ \E outcome \in AuthOutcomes : initializeAuthSettled(outcome)
    \/ \E ok \in BOOLEAN : initDataSettled(ok)
    \/ \E ok \in BOOLEAN : logoutSettled(ok)

Spec == Init /\ [][Next]_vars

(***************************************************************************)
(* The specifications checked.  Each one is the table driven by one family *)
(* of controls: its next-state relation is a part of Next, with the inputs *)
(* the family needs, and an event that starts a fetch waits while          *)
(* MaxInFlight fetches are in flight.                                      *)
(***************************************************************************)
Paced == InFlight < MaxInFlight

\* a Gateway with sixty streams
OneResponse ==
    {[count |-> 60, results |-> <<1>>, ids |-> <<1, 2>>, groups |-> <<"News">>]}

\* the second page of the pagination control
SecondPage == {2}

\* Filters, their debounce, and page navigation.
NextDebounce ==
    \/ \E value \in NameInputs : handleFilterChange(value)
    \/ \E value \in GroupInputs : handleGroupChange(value)
    \/ \E value \in M3UInputs : handleM3UChange(value)
    \/ Paced /\ debounceTimeout
    \/ Paced /\ \E pageIndex \in SecondPage : onPageIndexChange(pageIndex)
    \/ \E f \in BagToSet(fetches), ok \in BOOLEAN : fetchChannelGroupsResolved(f, ok)
    \/ \E f \in BagToSet(fetches), r \in OneResponse : fetchSucceeded(f, r)
    \/ \E f \in BagToSet(fetches), rejected \in Outcomes \ {"ok"} : fetchFailed(f, rejected)

SpecDebounce == Init /\ [][NextDebounce]_vars

\* The sort control.
NextSort ==
    \/ Paced /\ \E column \in SortColumns : onSortingChange(column)
    \/ \E f \in BagToSet(fetches), ok \in BOOLEAN : fetchChannelGroupsResolved(f, ok)
    \/ \E f \in BagToSet(fetches), r \in OneResponse : fetchSucceeded(f, r)
    \/ \E f \in BagToSet(fetches), rejected \in Outcomes \ {"ok"} : fetchFailed(f, rejected)

SpecSort == Init /\ [][NextSort]_vars

\* The pagination controls, against every answer of the Gateway.
NextPaging ==
    \/ Paced /\ \E value \in PageSizeOptions \ {pagination.pageSize} :
                    onPageSizeChange(value)
    \/ Paced /\ \E pageIndex \in PageArgs : onPageIndexChange(pageIndex)
    \/ \E f \in BagToSet(fetches), ok \in BOOLEAN : fetchChannelGroupsResolved(f, ok)
    \/ \E f \in BagToSet(fetches), r \in Responses : fetchSucceeded(f, r)
    \/ \E f \in BagToSet(fetches), rejected \in Outcomes \ {"ok"} : fetchFailed(f, rejected)

SpecPaging == Init /\ [][NextPaging]_vars

\* the group MultiSelect with its last group removed: onChange([])
ClearedGroup == {Arr("")}

\* Everything the request parameters are built from.
NextParams ==
    \/ \E value \in {"fox"} : handleFilterChange(value)
    \/ \E value \in ClearedGroup : handleGroupChange(value)
    \/ Paced /\ debounceTimeout
    \/ Paced /\ \E column \in {"name"} : onSortingChange(column)
    \/ Paced /\ \E value \in PageSizeOptions \ {pagination.pageSize} :
                    onPageSizeChange(value)
    \/ Paced /\ \E pageIndex \in SecondPage : onPageIndexChange(pageIndex)
    \/ \E f \in BagToSet(fetches), ok \in BOOLEAN : fetchChannelGroupsResolved(f, ok)
    \/ \E f \in BagToSet(fetches), r \in OneResponse : fetchSucceeded(f, r)
    \/ \E f \in BagToSet(fetches), rejected \in Outcomes \ {"ok"} : fetchFailed(f, rejected)

SpecParams == Init /\ [][NextParams]_vars

\* Everything that starts a fetch.
NextRefetch ==
    \/ \E value \in {"fox"} : handleFilterChange(value)
    \/ Paced /\ debounceTimeout
    \/ Paced /\ \E column \in {"name"} : onSortingChange(column)
    \/ Paced /\ \E value \in PageSizeOptions \ {pagination.pageSize} :
                    onPageSizeChange(value)
    \/ Paced /\ \E pageIndex \in SecondPage : onPageIndexChange(pageIndex)
    \/ Paced /\ \E value \in {"empty", "loaded"} : channelGroupsUpdated(value)
    \/ editStream
    \/ Paced /\ closeStreamForm
    \/ \E f \in BagToSet(fetches), ok \in BOOLEAN : fetchChannelGroupsResolved(f, ok)
    \/ \E f \in BagToSet(fetches), r \in OneResponse : fetchSucceeded(f, r)
    \/ \E f \in BagToSet(fetches), rejected \in Outcomes \ {"ok"} : fetchFailed(f, rejected)

SpecRefetch == Init /\ [][NextRefetch]_vars

\* The loading indicator: the selection, the bulk operations, and fetches.
NextLoading ==
    \/ \E updatedIds \in SUBSET RowIds : onRowSelectionChange(updatedIds)
    \/ createChannelsFromStreams
    \/ \E ok \in BOOLEAN : createChannelsResolved(ok)
    \/ \E ok \in BOOLEAN : requeryChannelsResolved(ok)
    \/ deleteStreams
    \/ \E ok \in BOOLEAN : deleteStreamsResolved(ok)
    \/ editStream
    \/ Paced /\ closeStreamForm
    \/ \E f \in BagToSet(fetches), ok \in BOOLEAN : fetchChannelGroupsResolved(f, ok)
    \/ \E f \in BagToSet(fetches), r \in OneResponse : fetchSucceeded(f, r)
    \/ \E f \in BagToSet(fetches), rejected \in Outcomes \ {"ok"} : fetchFailed(f, rejected)

SpecLoading == Init /\ [][NextLoading]_vars

\* an event may start a fetch while MaxInFlight fetches are in flight
Overlapping == InFlight <= MaxInFlight

\* the first and the second page of the pagination control
FirstPages == {1, 2}

\* Page navigation faster than the Gateway answers.
NextRace ==
    \/ Overlapping /\ \E pageIndex \in FirstPages : onPageIndexChange(pageIndex)
    \/ Overlapping /\ \E value \in PageSizeOptions \ {pagination.pageSize} :
                          onPageSizeChange(value)
    \/ \E f \in BagToSet(fetches), ok \in BOOLEAN : fetchChannelGroupsResolved(f, ok)
    \/ \E f \in BagToSet(fetches), r \in OneResponse : fetchSucceeded(f, r)
    \/ \E f \in BagToSet(fetches), rejected \in Outcomes \ {"ok"} : fetchFailed(f, rejected)

SpecRace == Init /\ [][NextRace]_vars

\* a Gateway with sixty streams, or with none matching
TwoResponses ==
    OneResponse \cup {[count |-> 0, results |-> <<>>, ids |-> <<>>, groups |-> <<"News">>]}

\* The selection, across page, page size and sort changes and their fetches.
NextSelect ==
    \/ \E updatedIds \in SUBSET Range(allRowIds) : onRowSelectionChange(updatedIds)
    \/ selectAll
    \/ Paced /\ \E pageIndex \in SecondPage : onPageIndexChange(pageIndex)
    \/ Paced /\ \E value \in PageSizeOptions \ {pagination.pageSize} :
                    onPageSizeChange(value)
    \/ Paced /\ \E column \in {"name"} : onSortingChange(column)
    \/ \E f \in BagToSet(fetches), ok \in BOOLEAN : fetchChannelGroupsResolved(f, ok)
    \/ \E f \in BagToSet(fetches), r \in TwoResponses : fetchSucceeded(f, r)
    \/ \E f \in BagToSet(fetches), rejected \in Outcomes \ {"ok"} : fetchFailed(f, rejected)

SpecSelect == Init /\ [][NextSelect]_vars

\* a drop may follow while MaxInFlight calls of earlier drops are unsettled
DropPaced == BagCardinality(updates) + requeries <= MaxInFlight

\* Drag and drop in ChannelStreams, by a user who signs in once.
NextReorder ==
    \/ authUser = "NONE" /\ \E level \in UserLevels : authUserLoaded(level)
    \/ \E rowId \in Range(channelData) : grab(rowId)
    \/ DropPaced /\ \E over \in Range(channelData) \cup {NoRow} : handleDragEnd(over)
    \/ \E u \in BagToSet(updates), ok \in BOOLEAN : updateChannelResolved(u, ok)
    \/ \E ok \in BOOLEAN, order \in ServerOrders : requeryAfterDropResolved(ok, order)

SpecReorder == Init /\ [][NextReorder]_vars

\* The stream form and the page size, against a Gateway whose count changes.
NextInitial ==
    \/ editStream
    \/ Paced /\ closeStreamForm
    \/ Paced /\ \E value \in PageSizeOptions \ {pagination.pageSize} :
                    onPageSizeChange(value)
    \/ \E f \in BagToSet(fetches), ok \in BOOLEAN : fetchChannelGroupsResolved(f, ok)
    \/ \E f \in BagToSet(fetches), r \in TwoResponses : fetchSucceeded(f, r)
    \/ \E f \in BagToSet(fetches), rejected \in Outcomes \ {"ok"} : fetchFailed(f, rejected)

SpecInitial == Init /\ [][NextInitial]_vars

\* a drop waits until the calls of earlier drops are settled
DropAlone == BagCardinality(updates) + requeries < MaxInFlight

\* What a signed-in user can make the two tables send: drops in
\* ChannelStreams and bulk deletes in StreamsTable.
NextPrivilege ==
    \/ authUser = "NONE" /\ \E level \in UserLevels : authUserLoaded(level)
    \/ \E rowId \in Range(channelData) : grab(rowId)
    \/ DropAlone /\ \E over \in Range(channelData) \cup {NoRow} : handleDragEnd(over)
    \/ \E u \in BagToSet(updates), ok \in BOOLEAN : updateChannelResolved(u, ok)
    \/ \E ok \in BOOLEAN, order \in {InitialStreams} : requeryAfterDropResolved(ok, order)
    \/ \E f \in BagToSet(fetches), ok \in BOOLEAN : fetchChannelGroupsResolved(f, ok)
    \/ \E f \in BagToSet(fetches), r \in OneResponse : fetchSucceeded(f, r)
    \/ \E updatedIds \in SUBSET Range(allRowIds) : onRowSelectionChange(updatedIds)
    \/ deleteStreams
    \/ \E ok \in BOOLEAN : deleteStreamsResolved(ok)

SpecPrivilege == Init /\ [][NextPrivilege]_vars

\* The channel-streams table with its two ways to change the stream list:
\* a drop and the remove icon.
NextRemove ==
    \/ authUser = "NONE" /\ \E level \in UserLevels : authUserLoaded(level)
    \/ DropPaced /\ \E rowId \in Range(channelData) : removeStream(rowId)
    \/ \E rowId \in Range(channelData) : grab(rowId)
    \/ DropAlone /\ \E over \in Range(channelData) \cup {NoRow} : handleDragEnd(over)
    \/ \E u \in BagToSet(updates), ok \in BOOLEAN : updateChannelResolved(u, ok)
    \/ \E ok \in BOOLEAN, order \in ServerLists : requeryAfterDropResolved(ok, order)

SpecRemove == Init /\ [][NextRemove]_vars

\* The profile form and its preview.  An input's onChange comes with a
\* value other than the one shown.
NextPreview ==
    \/ \E ready \in BOOLEAN : websocketChanged(ready)
    \/ \E ok \in BOOLEAN, results \in StreamResults : fetchStreamUrlResolved(ok, results)
    \/ \E value \in SearchInputs \ {searchPattern} : onSearchPatternUpdate(value)
    \/ \E value \in ReplaceInputs \ {replacePattern} : onReplacePatternUpdate(value)
    \/ patternsTimeout
    \/ \E value \in SampleInputs \ {sampleInput} : handleSampleInputChange(value)

SpecPreview == Init /\ [][NextPreview]_vars

\* The start of the application.
NextStart ==
    \/ toggleDrawer
    \/ \E outcome \in SuperUserOutcomes : fetchSuperUserSettled(outcome)
    \/ pageUnloaded
    \/ \E outcome \in AuthOutcomes : initializeAuthSettled(outcome)
    \/ \E ok \in BOOLEAN : initDataSettled(ok)
    \/ \E ok \in BOOLEAN : logoutSettled(ok)

SpecStart == Init /\ [][NextStart]_vars

\* Every promise awaited settles: while the page is loaded, a suspended
\* checkSuperuser or checkAuth resumes.
SpecStartLive ==
    /\ SpecStart
    /\ WF_vars(\E outcome \in SuperUserOutcomes : fetchSuperUserSettled(outcome))
    /\ WF_vars(\E outcome \in AuthOutcomes : initializeAuthSettled(outcome))
    /\ WF_vars(\E ok \in BOOLEAN : initDataSettled(ok))
    /\ WF_vars(\E ok \in BOOLEAN : logoutSettled(ok))

(***************************************************************************)
(* Properties.                                                             *)
(***************************************************************************)
\* the values a URLSearchParams holds under a key
ParamValues(params, key) ==
    { params[i][2] : i \in { j \in 1 .. Len(params) : params[j][1] = key } }

\* the fetchData calls a step started
Started(before, after) ==
    { f \in BagToSet(after) : CopiesIn(f, after) > CopiesIn(f, before) }

\* C1: when the debounce on filters expires (a commit), every list and
\* id-enumeration request made with the newly committed filters carries
\* page = 1, and the fetch the commit starts holds pageIndex = 0, whatever
\* the page index was before the commit.
C1_CommitFetchesFirstPage ==
    [][lastEvent'.op = "commit" =>
          /\ pagination'.pageIndex = 0
          /\ \A f \in Started(fetches, fetches') : f.pagination.pageIndex = 0
          /\ \A i \in 1 .. Len(requests') :
                /\ ParamValues(requests'[i].queryStreams, "page") = {"1"}
                /\ ParamValues(requests'[i].getAllStreamIds, "page") = {"1"}
                /\ ParamValues(requests'[i].queryStreams, "name")
                       \subseteq {debouncedFilters'.name.text}]_vars

\* a commit taken on the second page that made its requests
C1_CommitFromSecondPage ==
    /\ lastEvent.op = "commit"
    /\ lastEvent.n = 1
    /\ requests # <<>>
    /\ debouncedFilters.name = Str("fox")

\* C2: a burst of filter edits starts no fetch while it lasts; the commit
\* that ends it starts exactly one fetch, and that fetch carries the staged
\* filters, which are those of the last edit.
C2_BurstFetchesOnce ==
    [][/\ lastEvent'.op = "filter" =>
              /\ fetches' = fetches
              /\ requests' = <<>>
              /\ debouncedFilters' = debouncedFilters
       /\ lastEvent'.op = "commit" =>
              /\ BagCardinality(fetches') = BagCardinality(fetches) + 1
              /\ Len(requests') <= 1
              /\ debouncedFilters' = filters
              /\ \A f \in Started(fetches, fetches') :
                    f.pc = "fetchChannelGroups" => f.debouncedFilters = filters
              /\ \A i \in 1 .. Len(requests') : \A k \in 1 .. Len(FilterKeys) :
                    ParamValues(requests'[i].queryStreams, FilterKeys[k])
                        \subseteq {filters[FilterKeys[k]].text}]_vars

\* a commit that directly follows two or more edits and made its request
C2_CommitAfterBurst ==
    /\ lastEvent.op = "commit"
    /\ lastEvent.col = "burst"
    /\ Len(requests) = 1
    /\ ParamValues(requests[1].queryStreams, "name") = {"fox"}

\* C3: the filter keys share one debounce window: an edit to any key
\* replaces the pending timeout by one for the whole staged map, and the
\* committed map only ever changes, at a commit, to the whole staged map.
C3_SharedDebounceWindow ==
    [][/\ filters' # filters =>
              /\ debounceTimer' = <<filters'>>
              /\ debouncedFilters' = debouncedFilters
       /\ debouncedFilters' # debouncedFilters =>
              /\ lastEvent'.op = "commit"
              /\ debouncedFilters' = filters
       /\ lastEvent'.op = "commit" => debouncedFilters' = filters]_vars

\* a commit after a burst in which more than one key was staged
C3_CommitOfTwoKeys ==
    /\ lastEvent.op = "commit"
    /\ lastEvent.col = "burst"
    /\ debouncedFilters.name # Str("")
    /\ debouncedFilters.channel_group # Str("")
    /\ debouncedFilters.m3u_account # Str("")

\* the direction the list is requested in for a field
SortDirection(so, field) ==
    IF Len(so) = 0 \/ so[1].id # field THEN "unsorted"
    ELSE IF so[1].desc = "true" THEN "descending" ELSE "ascending"

\* C4: onSortingChange(f) on the same field f moves its sort state
\* unsorted -> ascending -> descending -> unsorted, from every reachable
\* sort state, the initial one included.
C4_SortCycle ==
    [][lastEvent'.op = "sort" =>
          LET before == SortDirection(sorting, lastEvent'.col)
              after == SortDirection(sorting', lastEvent'.col)
          IN /\ before = "unsorted" => after = "ascending"
             /\ before = "ascending" => after = "descending"
             /\ before = "descending" => after = "unsorted"]_vars

\* the cycle came back to unsorted
C4_CycleClosed ==
    /\ lastEvent.op = "sort"
    /\ lastEvent.col = "name"
    /\ lastEvent.n = 0
    /\ sorting = <<>>

\* C5: onSortingChange(g) for a field g other than the sorted one (or with
\* no field sorted) leaves exactly one entry, g ascending; at most one sort
\* field is ever active.
C5_SwitchField ==
    /\ [](Len(sorting) <= 1)
    /\ [][(/\ lastEvent'.op = "sort"
           /\ SortDirection(sorting, lastEvent'.col) = "unsorted")
          => sorting' = << [id |-> lastEvent'.col, desc |-> "false"] >>]_vars

\* a switch away from a field sorted descending
C5_SwitchedFromDescending ==
    /\ lastEvent.op = "sort"
    /\ lastEvent.n = 1
    /\ lastEvent.col = "group"
    /\ sorting = << [id |-> "group", desc |-> "false"] >>

\* C6: onPageIndexChange(n) leaves pagination unchanged and starts no fetch
\* for every n outside 1 .. pageCount (0, negative values and values above
\* pageCount included), and sets pageIndex to n - 1 for n inside it.
C6_PageIndexGuard ==
    [][lastEvent'.op = "pageIndex" =>
          IF lastEvent'.n \in 1 .. pageCount
          THEN pagination' = [pagination EXCEPT !.pageIndex = lastEvent'.n - 1]
          ELSE /\ pagination' = pagination
               /\ fetches' = fetches
               /\ requests' = <<>>]_vars

\* what fetchData sends for the pagination, sorting and committed filters
\* it sees
C7_Sends(call, pg, so, df) ==
    LET params == call.queryStreams
    IN /\ call.getAllStreamIds = params
       /\ ParamValues(params, "page") = {ToString(pg.pageIndex + 1)}
       /\ ParamValues(params, "page_size") = {ToString(pg.pageSize)}
       /\ ParamValues(params, "ordering") =
              IF so = <<>> THEN {}
              ELSE {IF so[1].desc = "true" THEN "-" \o so[1].id ELSE so[1].id}
       /\ \A k \in 1 .. Len(FilterKeys) :
              ParamValues(params, FilterKeys[k]) =
                  IF df[FilterKeys[k]] = Str("") THEN {}
                  ELSE {df[FilterKeys[k]].text}
       /\ \A i, j \in 1 .. Len(params) : params[i][1] = params[j][1] => i = j
       /\ \A i \in 1 .. Len(params) :
              params[i][1] \in {"page", "page_size", "ordering"}
                               \cup { FilterKeys[k] : k \in 1 .. Len(FilterKeys) }

\* C7: every fetch sends page = pageIndex + 1, page_size = pageSize,
\* ordering = the sort field with '-' in front exactly when descending, and
\* the committed (not the staged) filter entries; the id-enumeration call
\* gets the same parameters as the list call.  A fetch that waited for the
\* channel groups sends what it saw when it was called.
C7_RequestParams ==
    [][IF lastEvent'.op \in {"groupsOk", "groupsFailed"}
       THEN /\ Len(requests') >= 1
            /\ \E f \in BagToSet(fetches) :
                  /\ f.pc = "fetchChannelGroups"
                  /\ C7_Sends(requests'[1], f.pagination, f.sorting,
                              f.debouncedFilters)
            /\ \A i \in 2 .. Len(requests') :
                  C7_Sends(requests'[i], pagination', sorting', debouncedFilters')
       ELSE /\ \A i \in 1 .. Len(requests') :
                  C7_Sends(requests'[i], pagination', sorting', debouncedFilters')
            /\ \A f \in Started(fetches, fetches') :
                  f.pc = "fetchChannelGroups" =>
                      /\ f.pagination = pagination'
                      /\ f.sorting = sorting'
                      /\ f.debouncedFilters = debouncedFilters']_vars

\* a request for the second page, descending, with a committed name filter
\* while another filter value is staged
C7_SecondPageDescendingFiltered ==
    /\ requests # <<>>
    /\ pagination.pageIndex = 1
    /\ sorting = << [id |-> "name", desc |-> "true"] >>
    /\ debouncedFilters.name = Str("fox")
    /\ filters.channel_group # debouncedFilters.channel_group

\* C8: when a Gateway call of a fetch fails, the rows, the id list, the
\* page count and the range string stay those of the last successful
\* fetch (and so do the group options and the initial count).
C8_FailureKeepsSnapshot ==
    [][lastEvent'.op = "fetchFailed" =>
          /\ data' = data
          /\ allRowIds' = allRowIds
          /\ pageCount' = pageCount
          /\ paginationString' = paginationString
          /\ groupOptions' = groupOptions
          /\ initialDataCount' = initialDataCount]_vars

\* a failure after a fetch that filled the table
C8_FailureOverSnapshot ==
    /\ lastEvent.op = "fetchFailed"
    /\ data # <<>>
    /\ allRowIds # <<>>
    /\ pageCount = 2
    /\ paginationString # ""

\* C9: once the Gateway calls of every operation that raised the loading
\* indicator are complete, succeeded or failed, the indicator is cleared.
C9_LoadingCleared ==
    (fetches = EmptyBag /\ bulk = EmptyBag) => ~isLoading

\* what C10 allows to start a fetch
UserChanges == {"pageIndex", "pageSize", "sort", "commit"}
\* what starts one: also closing the stream form, a new channelGroups object
\* in the store, and groupsLoaded becoming true
FetchTriggers == UserChanges \cup {"closeStreamForm", "channelGroups", "groupsOk"}

\* a step that leaves one more fetchData call in flight
FetchStarted == BagCardinality(fetches') > BagCardinality(fetches)

\* C10 as stated: after a fetch fails, the next fetch is started only by a
\* change of page index, page size or sort, or by a filter commit.
C10_OnlyUserChangesRefetch ==
    [][(lastEvent.op = "fetchFailed" /\ FetchStarted)
       => lastEvent'.op \in UserChanges]_vars

\* C10: a failed fetch starts no fetch and makes no request; a fetch is
\* started only by a change of page index, page size or sort, a filter
\* commit, closing the stream form, a new channelGroups object in the store,
\* or groupsLoaded becoming true.
C10_NoRetryOfItsOwn ==
    [][/\ lastEvent'.op = "fetchFailed" =>
              /\ BagCardinality(fetches') = BagCardinality(fetches) - 1
              /\ Started(fetches, fetches') = {}
              /\ requests' = <<>>
       /\ FetchStarted => lastEvent'.op \in FetchTriggers]_vars

\* a failed fetch with nothing in flight after it
C10_FailedAndIdle ==
    /\ lastEvent.op = "fetchFailed"
    /\ fetches = EmptyBag
    /\ requests = <<>>
    /\ ~isLoading

\* C11: fetchData applies the answer of whichever call resolves, with the
\* pagination that call captured and no look at the current query; with two
\* calls in flight the answer to the earlier query can therefore be applied
\* last and stay on display.
C11_AnswerAppliedUnsequenced ==
    [][lastEvent'.op = "fetchOk" =>
          \E f \in BagToSet(fetches) : \E count \in Counts :
              /\ f.pc = "Promise.all"
              /\ fetches' = fetches (-) BagOf(f)
              /\ pageCount' = CeilDiv(count, f.pagination.pageSize)
              /\ paginationString' = RangeString(f.pagination, count)]_vars

\* no fetch in flight, the first page is the current one, and the range
\* shown is that of the second page, whose answer was applied last
C11_StaleAnswerShown ==
    /\ fetches = EmptyBag
    /\ lastEvent.op = "fetchOk"
    /\ pagination = [pageIndex |-> 0, pageSize |-> 50]
    /\ paginationString = "51 to 60 of 60"
    /\ pageCount = 2

\* C12: a change of page index, page size or sort, and every step of the
\* fetch it starts, leaves the selected ids as they are (in particular when
\* every selected id is still in the id enumeration).
C12_SelectionKept ==
    [][lastEvent'.op \in {"pageIndex", "pageSize", "sort", "groupsOk",
                          "groupsFailed", "fetchOk", "fetchFailed"}
       => selectedStreamIds' = selectedStreamIds]_vars

\* a selection within the id enumeration, after the fetch of a page size
\* change was applied on the second page, sorted descending
C12_SelectionAcrossQueries ==
    /\ lastEvent.op = "fetchOk"
    /\ selectedStreamIds = {1, 2}
    /\ selectedStreamIds \subseteq Range(allRowIds)
    /\ pagination = [pageIndex |-> 1, pageSize |-> 25]
    /\ sorting = << [id |-> "name", desc |-> "true"] >>

\* C13: after every successful fetch, every selected id is in the id
\* enumeration that fetch returned.
C13_SelectionWithinEnumeration ==
    [][lastEvent'.op = "fetchOk" => selectedStreamIds' \subseteq Range(allRowIds')]_vars

\* C14: select-all adds to the selection exactly the ids of the id
\* enumeration of the last successful fetch, whose rows may be only a part
\* of it; allRowIds always is that enumeration.
C14_SelectAllAddsEnumeration ==
    [][/\ lastEvent'.op = "selectAll" =>
              selectedStreamIds' = selectedStreamIds \cup Range(allRowIds)
       /\ lastEvent'.op = "fetchOk" =>
              \E r \in TwoResponses : /\ allRowIds' = r.ids
                                      /\ data' = r.results]_vars

\* select-all took in an id whose row is not on the loaded page
C14_SelectedBeyondPage ==
    /\ lastEvent.op = "selectAll"
    /\ selectedStreamIds = {1, 2}
    /\ Range(data) = {1}
    /\ Range(allRowIds) = {1, 2}

\* C15: a drop by an admin of row a over another row b makes the local
\* order L with a taken out and put back at the position b has in L; it is
\* applied in the drop itself, the persist call issued carries that new
\* order, and the new order is a permutation of L.
C15_DropMovesRow ==
    [][lastDrag'.op = "drop" =>
          LET a == lastDrag'.active
              b == lastDrag'.over
              L == channelData
              R == channelData'
          IN /\ authUser = "ADMIN"
             /\ a # b
             /\ (a \in Range(L) /\ b \in Range(L)) =>
                   /\ Len(R) = Len(L)
                   /\ \A i \in 1 .. Len(L) : L[i] = b => R[i] = a
                   /\ Without(R, a) = Without(L, a)
                   /\ Range(R) = Range(L)
                   /\ \A i, j \in 1 .. Len(R) : R[i] = R[j] => i = j
                   /\ updates' = updates (+) BagOf([streams |-> R])]_vars

\* rows 1 2 3 4 with row 3 dropped over row 1: 3 1 2 4, locally and in the
\* persist call not yet acknowledged
C15_ThirdRowToTop ==
    /\ lastDrag = DragEvent("drop", 3, 1)
    /\ channelData = <<3, 1, 2, 4>>
    /\ channelStreams = <<1, 2, 3, 4>>
    /\ BagIn([streams |-> <<3, 1, 2, 4>>], updates)

\* C16: a gesture of a user whose level is not ADMIN never takes the drag
\* and drop out of Idle: no drag session starts.
C16_NoSessionForNonAdmin ==
    [][(authUser \in (UserLevels \ {"ADMIN"}) /\ dragging = NoRow) =>
          dragging' = NoRow]_vars

\* C17: a user whose level is not ADMIN causes neither a persist call of a
\* reorder nor a bulk delete call.
C17_NonAdminCallsNothing ==
    [][(authUser \in (UserLevels \ {"ADMIN"})) =>
          /\ BagCardinality(updates') <= BagCardinality(updates)
          /\ CopiesIn("deleteStreams", bulk') <= CopiesIn("deleteStreams", bulk)]_vars

\* C18: when the persist call of a drop fails, the call is over, no
\* re-fetch is issued, and the local order stays the one the drop made: it
\* is not put back to the store's order.
C18_FailureKeepsOptimisticOrder ==
    [][lastDrag'.op = "persistFailed" =>
          /\ channelData' = channelData
          /\ channelStreams' = channelStreams
          /\ requeries' = requeries
          /\ dragging' = dragging
          /\ BagCardinality(updates') = BagCardinality(updates) - 1]_vars

\* a failed persist call, nothing unsettled, and the local order still
\* other than the store's
C18_OptimisticOrderAfterFailure ==
    /\ lastDrag.op = "persistFailed"
    /\ updates = EmptyBag
    /\ requeries = 0
    /\ channelData # channelStreams

\* C19: an acknowledged persist call issues one re-fetch of the channels,
\* a re-fetch is issued by nothing but an acknowledgement, and when the
\* re-fetched streams reach the store the local order becomes the store's.
C19_RequeryAfterAcknowledgement ==
    [][/\ lastDrag'.op = "persistOk" => requeries' = requeries + 1
       /\ requeries' > requeries => lastDrag'.op = "persistOk"
       /\ lastDrag'.op = "requeryOk" =>
              /\ channelStreams' \in ServerOrders
              /\ channelData' = channelStreams']_vars

\* the re-fetch of a drop brought the server's order 2 1 3 4
C19_ServerOrderShown ==
    /\ lastDrag.op = "requeryOk"
    /\ channelStreams = <<2, 1, 3, 4>>
    /\ channelData = <<2, 1, 3, 4>>

\* C20: while a persist call is unacknowledged no drag session is under way
\* and no second persist call is in flight.
C20_DropsSerialized ==
    /\ BagCardinality(updates) <= 1
    /\ updates # EmptyBag => dragging = NoRow

\* C21: a drag session that ends over no row, or over the dragged row
\* itself, is a cancel: the session is over, the local order is unchanged
\* and no persist call and no re-fetch is issued.
C21_CancelChangesNothing ==
    [][(/\ dragging # NoRow
        /\ dragging' = NoRow
        /\ lastDrag'.active = dragging
        /\ lastDrag'.over \in {NoRow, dragging}) =>
          /\ channelData' = channelData
          /\ channelStreams' = channelStreams
          /\ updates' = updates
          /\ requeries' = requeries]_vars

\* an admin has let row 2 go over row 2: nothing was sent
C21_AdminDroppedOverItself ==
    /\ authUser = "ADMIN"
    /\ lastDrag = DragEvent("cancel", 2, 2)
    /\ channelData = InitialStreams
    /\ updates = EmptyBag
    /\ requeries = 0

\* C29: a user whose level is not ADMIN issues no updateChannel call from
\* the channel-streams table, neither by the remove icon nor by a drop.
C29_NonAdminUpdatesNothing ==
    [][authUser # "ADMIN" /\ authUser \in UserLevels =>
          \A u \in BagToSet(updates') : CopiesIn(u, updates') <= CopiesIn(u, updates)]_vars

\* C28: in every state the sort icon of the name header agrees with the
\* ordering fetchData sends: the ascending icon exactly when the ordering is
\* name, the descending icon exactly when it is -name, the neutral icon
\* exactly when no ordering of name is sent.
C28_IconAgreesWithOrdering ==
    /\ SortingIcon(sorting, "name") = "ArrowUpNarrowWide"
           <=> OrderingParam(sorting) = << <<"ordering", "name">> >>
    /\ SortingIcon(sorting, "name") = "ArrowDownWideNarrow"
           <=> OrderingParam(sorting) = << <<"ordering", "-name">> >>
    /\ SortingIcon(sorting, "name") = "ArrowUpDown"
           <=> OrderingParam(sorting) \notin
                  {<< <<"ordering", "name">> >>, << <<"ordering", "-name">> >>}

\* C24: every change of the page index, the page size, the sort state or
\* the committed filters starts a fetch in the same step that holds the new
\* state; if it need not wait for the channel groups it has made one list
\* call (rows and total count) and one id-enumeration call with the
\* parameters of the new state, and a fetch that waited makes both calls
\* when the wait is over.
C24_ChangeIsFetched ==
    [][/\ (pagination' # pagination \/ sorting' # sorting
              \/ debouncedFilters' # debouncedFilters) =>
              \E f \in Started(fetches, fetches') :
                 /\ f.pagination = pagination'
                 /\ IF f.pc = "fetchChannelGroups"
                    THEN f.sorting = sorting' /\ f.debouncedFilters = debouncedFilters'
                    ELSE /\ Len(requests') = 1
                         /\ DOMAIN requests'[1] = {"queryStreams", "getAllStreamIds"}
                         /\ C7_Sends(requests'[1], pagination', sorting',
                                     debouncedFilters')
       /\ lastEvent'.op \in {"groupsOk", "groupsFailed"} =>
              /\ Len(requests') >= 1
              /\ DOMAIN requests'[1] = {"queryStreams", "getAllStreamIds"}]_vars

\* a sort click to descending has started the one fetch in flight
C24_SortStartedFetch ==
    /\ lastEvent.op = "sort"
    /\ InFlight = 1
    /\ Len(requests) = 1
    /\ ParamValues(requests[1].queryStreams, "ordering") = {"-name"}
    /\ ParamValues(requests[1].getAllStreamIds, "ordering") = {"-name"}

\* the fetchData calls a step ended
Completed(before, after) ==
    { f \in BagToSet(before) : CopiesIn(f, after) < CopiesIn(f, before) }

\* C25: after a successful fetch with total count Z, issued at page index p
\* and page size s, pageCount is the least number of pages of size s that
\* hold Z rows and the range string is 'X to Y of Z' with X = p*s + 1 and
\* Y = min((p+1)*s, Z); p and s are those of the request, not the current
\* ones.
C25_CountAndRangeOfRequest ==
    [][lastEvent'.op = "fetchOk" =>
          \E f \in Completed(fetches, fetches'), Z \in Counts :
             LET p == f.pagination.pageIndex
                 s == f.pagination.pageSize
                 X == p * s + 1
                 Y == IF (p + 1) * s <= Z THEN (p + 1) * s ELSE Z
             IN /\ pageCount' * s >= Z
                /\ (pageCount' - 1) * s < Z
                /\ paginationString' =
                       ToString(X) \o " to " \o ToString(Y) \o " of " \o ToString(Z)]_vars

\* the answer to the request for the second page of 25 is shown while the
\* table has moved on to another page or page size
C25_RangeOfEarlierRequest ==
    /\ lastEvent.op = "fetchOk"
    /\ paginationString = "26 to 50 of 60"
    /\ pageCount = 3
    /\ pagination # [pageIndex |-> 1, pageSize |-> 25]

\* C26: in every state reached by a successful fetch the page index is
\* within range: pageIndex < pageCount whenever pageCount > 0.
C26_PageIndexInRange ==
    (lastEvent.op = "fetchOk" /\ pageCount > 0) => pagination.pageIndex < pageCount

\* C27: the loading indicator is on whenever a fetch is in flight.
C27_LoadingWhileFetching ==
    InFlight > 0 => isLoading

\* C30: once set, initialDataCount never changes.
C30_InitialCountFixed ==
    [][initialDataCount # Null => initialDataCount' = initialDataCount]_vars

\* C22: when the search pattern does not compile, or the search pattern or
\* the sample input is empty, the highlighted view and the replace view both
\* show the sample input as it is, and no error reaches a view.
C22_FallbackShowsInput ==
    (\/ searchPattern = <<>>
     \/ sampleInput = <<>>
     \/ \E i \in 1 .. Len(searchPattern) : searchPattern[i] = "(") =>
        /\ getHighlightedSearchText = sampleInput
        /\ getLocalReplaceResult = sampleInput

\* the pattern '(' against a sample text and a replacement, none empty
C22_UnterminatedGroup ==
    /\ searchPattern = <<"(">>
    /\ replacePattern = <<"x">>
    /\ sampleInput = <<"a", "b", "a">>

\* C23: an edit of the search or the replace pattern sends nothing and
\* leaves one pending timeout, that of both patterns as they now are; the
\* timeout sends, socket ready and stream URL known, exactly one preview
\* request, with the search and replace values as they are then; with the
\* socket, the stream URL and the sample text unchanged nothing else sends.
C23_BurstSendsOnePreview ==
    [][/\ ((lastPreview'.op \in {"search", "replace"})
              /\ (searchPattern' # searchPattern \/ replacePattern' # replacePattern)) =>
              /\ previews' = <<>>
              /\ Len(patternTimer') = 1
              /\ patternTimer'[1].search = searchPattern'
              /\ patternTimer'[1].replace = replacePattern'
       /\ lastPreview'.op = "patternsCommit" =>
              /\ patternTimer' = <<>>
              /\ IF websocketReady /\ streamUrl # <<>>
                 THEN /\ Len(previews') = 1
                      /\ previews'[1].search = searchPattern
                      /\ previews'[1].replace = replacePattern
                 ELSE previews' = <<>>
       /\ (/\ previews' # <<>>
           /\ websocketReady' = websocketReady
           /\ streamUrl' = streamUrl
           /\ sampleInput' = sampleInput) => lastPreview'.op = "patternsCommit"]_vars

\* the one request after a burst of edits of both patterns
C23_PreviewAfterBurst ==
    /\ lastPreview = Event("patternsCommit", 2, "both")
    /\ Len(previews) = 1
    /\ previews[1].search = <<".", "b">>
    /\ previews[1].replace = <<"x">>

\* checkAuth is over: it returned, or its promise was rejected
CheckAuthOver == checkAuth \in {"done", "rejected"}

\* C31 as stated: every start-up ends with the data initialised or with
\* logout called.
C31_EveryStartUpEnds ==
    <>(dataInitialised \/ logoutCalls > 0)

\* C31: initData is called only when initializeAuth has resolved true;
\* logout is called when initializeAuth resolves false, when initializeAuth
\* throws and when initData throws; when checkAuth is over the data is
\* initialised or logout was called; and every start-up gets there unless
\* the page is unloaded first.
C31_StartUpEndsUnlessUnloaded ==
    /\ [][/\ initDataCalls' # initDataCalls =>
                /\ checkAuth = "initializeAuth"
                /\ loggedIn' = "true"
                /\ initDataCalls' = initDataCalls + 1
          /\ (loggedIn = "pending" /\ loggedIn' \in {"false", "throws"}) =>
                logoutCalls' = logoutCalls + 1
          /\ lastStart' = StartEvent("initData", "throws") =>
                logoutCalls' = logoutCalls + 1]_vars
    /\ [](initDataCalls > 0 => loggedIn = "true")
    /\ [](CheckAuthOver => (dataInitialised \/ logoutCalls > 0))
    /\ <>(unloaded \/ (CheckAuthOver /\ (dataInitialised \/ logoutCalls > 0)))

\* initializeAuth resolved true, initData threw, and the logout of the catch
\* block has resolved
C31_LogoutAfterInitDataThrew ==
    /\ checkAuth = "done"
    /\ loggedIn = "true"
    /\ initDataCalls = 1
    /\ ~dataInitialised
    /\ logoutCalls = 1
    /\ ~unloaded

====
